---------------------------- MODULE Spec2Model ----------------------------
(***************************************************************************)
(* Model of the bit-vector invertibility-condition kernel:                 *)
(*   - bit-vector domains (lo, hi), their constructors, queries, printing  *)
(*   - the domain value generator (gen_init_range / gen_has_next / next)   *)
(*   - the wheel factorizer and bzla_bvdomain_get_factor                   *)
(*   - the invertibility oracles bzla_is_inv_<op> and bzla_is_inv_<op>_const*)
(*                                                                         *)
(* A bit-vector is a record [w |-> width, v |-> unsigned value].  A C      *)
(* string is a sequence of one-character strings.  A pointer is an address *)
(* into the sequence mem (0 is the null pointer).                          *)
(***************************************************************************)
EXTENDS Integers, Sequences, FiniteSets

VARIABLES
  \* ---- bit-vector domain operations
  d,          \* the domain under construction / operation ([lo, hi]) or NoDomain
  dorigin,    \* constructor that built d ("none" before construction)
  dstr,       \* string handed to bzla_bvdomain_new_from_char (<<>> otherwise)
  dchar,      \* last result of bzla_bvdomain_to_char (<<>> if none)
  dbv,        \* bit-vector handed to check_fixed_bits / is_consistent
  cfb,        \* last result of bzla_bvdomain_check_fixed_bits ("none" if none)
  cons,       \* last result of bzla_bvdomain_is_consistent ("none" if none)
  \* ---- wheel factorizer / bzla_bvdomain_get_factor
  wf,         \* struct WheelFactorizer (done, num, fact, pos, limit)
  fpc,        \* position of the factorizer client
  fin,        \* inputs of the factorizer client (num, x, excl_min_val, limit, mode)
  num_iterations, \* local of wfact_next
  fact,       \* last value returned by wfact_next (NullBv for a null return)
  rets,       \* history: values returned by wfact_next so far, in order
  gf_res,     \* result of bzla_bvdomain_get_factor
  \* ---- memory, generator, oracles
  mem,        \* the arena: sequence of bit-vector cells, FREED once released
  gen,        \* struct BzlaBvDomainGenerator (fields are addresses into mem)
  gpc,        \* position of the generator client
  gin,        \* inputs of the generator client (domain, min, max given?)
  out,        \* history: values returned by bzla_bvdomain_gen_next, in order
  pc,         \* position of the oracle call
  in,         \* inputs of the oracle call as the caller handed them over
  arena,      \* allocations the oracle made and has not released
  res_inv,    \* result of bzla_is_inv_<op>      ("none" before the call)
  res_const,  \* result of bzla_is_inv_<op>_const ("none" before the call)
  ures,       \* local res of bzla_is_inv_urem_const
  candidates, \* local stack of bzla_is_inv_urem_const (buffer, pushed addresses)
  \* ---- bzla_bvdomain_to_str
  s_buf,      \* the static print buffer (<<>> where printing is not modelled)
  s_buf_pos,  \* the static write position
  buf_start,  \* offset of the string the last call returned
  sdom,       \* the domain handed to the last call
  spc,        \* "ready", or "abort" (an assert failed), or "ub" (a write
              \* outside s_buf), or "idle"
  nprints,    \* number of calls so far
  ndebug      \* TRUE iff the build compiles the asserts out (NDEBUG)

domVars  == <<d, dorigin, dstr, dchar, dbv, cfb, cons>>
factVars == <<wf, fpc, fin, num_iterations, fact, rets, gf_res>>
genVars  == <<gen, gpc, gin, out>>
invVars  == <<pc, in, arena, res_inv, res_const, ures, candidates>>
strVars  == <<s_buf, s_buf_pos, buf_start, sdom, spc, nprints, ndebug>>
vars     == <<domVars, factVars, mem, genVars, invVars, strVars>>

---------------------------------------------------------------------------
(* Bounds of the model.                                                    *)

\* largest operand width of an oracle call
MaxW == 3
\* largest width of a domain in the domain-operation specification
MaxDomW == 3
\* longest ternary string handed to new_from_char
MaxStrLen == 4
\* largest width of the number handed to the wheel factorizer
MaxFactW == 6
\* largest step limit handed to the wheel factorizer (0 = unlimited)
MaxLimit == 3
\* largest width of a domain handed to the generator
MaxGenW == 3

---------------------------------------------------------------------------
(* Bit-vector primitives (the bzla_bv_* library): fixed width, unsigned,   *)
(* wrap-around arithmetic.                                                 *)

Pow2(n) == 2^n

RECURSIVE AndN(_, _)
AndN(a, b) ==
  IF a = 0 \/ b = 0 THEN 0
  ELSE (a % 2) * (b % 2) + 2 * AndN(a \div 2, b \div 2)

RECURSIVE OrN(_, _)
OrN(a, b) ==
  IF a = 0 THEN b
  ELSE IF b = 0 THEN a
  ELSE (IF a % 2 = 1 \/ b % 2 = 1 THEN 1 ELSE 0) + 2 * OrN(a \div 2, b \div 2)

Bv(w, v) == [w |-> w, v |-> v]

BvSet(w) == {Bv(w, v) : v \in 0 .. Pow2(w) - 1}

bzla_bv_get_width(a) == a.w

bzla_bv_new(w) == Bv(w, 0)

bzla_bv_zero(w) == Bv(w, 0)

bzla_bv_one(w) == Bv(w, 1)

bzla_bv_ones(w) == Bv(w, Pow2(w) - 1)

bzla_bv_uint64_to_bv(val, w) == Bv(w, val % Pow2(w))

bzla_bv_copy(a) == Bv(a.w, a.v)

bzla_bv_compare(a, b) == IF a.v < b.v THEN -1 ELSE IF a.v > b.v THEN 1 ELSE 0

bzla_bv_get_bit(a, pos) == (a.v \div Pow2(pos)) % 2

bzla_bv_set_bit(a, pos, bit) ==
  Bv(a.w, a.v - bzla_bv_get_bit(a, pos) * Pow2(pos) + bit * Pow2(pos))

bzla_bv_is_zero(a) == a.v = 0

bzla_bv_is_ones(a) == a.v = Pow2(a.w) - 1

bzla_bv_is_true(a) == a.w = 1 /\ a.v = 1

bzla_bv_is_false(a) == a.w = 1 /\ a.v = 0

bzla_bv_not(a) == Bv(a.w, Pow2(a.w) - 1 - a.v)

bzla_bv_neg(a) == Bv(a.w, (Pow2(a.w) - a.v) % Pow2(a.w))

bzla_bv_and(a, b) == Bv(a.w, AndN(a.v, b.v))

bzla_bv_or(a, b) == Bv(a.w, OrN(a.v, b.v))

bzla_bv_xnor(a, b) ==
  Bv(a.w, Pow2(a.w) - 1 - (OrN(a.v, b.v) - AndN(a.v, b.v)))

bzla_bv_redor(a) == Bv(1, IF a.v = 0 THEN 0 ELSE 1)

bzla_bv_eq(a, b) == Bv(1, IF a.v = b.v THEN 1 ELSE 0)

bzla_bv_add(a, b) == Bv(a.w, (a.v + b.v) % Pow2(a.w))

bzla_bv_sub(a, b) == Bv(a.w, (a.v + Pow2(a.w) - b.v) % Pow2(a.w))

bzla_bv_mul(a, b) == Bv(a.w, (a.v * b.v) % Pow2(a.w))

bzla_bv_inc(a) == Bv(a.w, (a.v + 1) % Pow2(a.w))

bzla_bv_dec(a) == Bv(a.w, (a.v + Pow2(a.w) - 1) % Pow2(a.w))

bzla_bv_udiv(a, b) == IF b.v = 0 THEN bzla_bv_ones(a.w) ELSE Bv(a.w, a.v \div b.v)

bzla_bv_urem(a, b) == IF b.v = 0 THEN Bv(a.w, a.v) ELSE Bv(a.w, a.v % b.v)

bzla_bv_sll(a, b) ==
  IF b.v >= a.w THEN Bv(a.w, 0) ELSE Bv(a.w, (a.v * Pow2(b.v)) % Pow2(a.w))

bzla_bv_srl(a, b) ==
  IF b.v >= a.w THEN Bv(a.w, 0) ELSE Bv(a.w, a.v \div Pow2(b.v))

bzla_bv_srl_uint64(a, n) ==
  IF n >= a.w THEN Bv(a.w, 0) ELSE Bv(a.w, a.v \div Pow2(n))

bzla_bv_slice(a, upper, lower) ==
  Bv(upper - lower + 1, (a.v \div Pow2(lower)) % Pow2(upper - lower + 1))

RECURSIVE CtzN(_, _)
CtzN(v, w) == IF w = 0 \/ v % 2 = 1 THEN 0 ELSE 1 + CtzN(v \div 2, w - 1)

bzla_bv_get_num_trailing_zeros(a) == CtzN(a.v, a.w)

bzla_bv_mod_inverse(a) ==
  Bv(a.w, CHOOSE y \in 0 .. Pow2(a.w) - 1 : (a.v * y) % Pow2(a.w) = 1 % Pow2(a.w))

RECURSIVE CharsToN(_)
CharsToN(str) ==
  IF str = <<>> THEN 0
  ELSE 2 * CharsToN(SubSeq(str, 1, Len(str) - 1))
       + (IF str[Len(str)] = "1" THEN 1 ELSE 0)

bzla_bv_char_to_bv(str) == Bv(Len(str), CharsToN(str))

bzla_bv_to_char(a) ==
  [i \in 1 .. a.w |-> IF bzla_bv_get_bit(a, a.w - i) = 1 THEN "1" ELSE "0"]

---------------------------------------------------------------------------
(* Bit-vector domains.                                                     *)

NoDomain == [lo |-> Bv(0, 0), hi |-> Bv(0, 0)]

NullBv == Bv(0, 0)

bzla_bvdomain_new_init(width) ==
  [lo |-> bzla_bv_zero(width), hi |-> bzla_bv_ones(width)]

bzla_bvdomain_new(lo, hi) == [lo |-> bzla_bv_copy(lo), hi |-> bzla_bv_copy(hi)]

char_to_bv(c, bit) ==
  bzla_bv_char_to_bv([i \in 1 .. Len(c) |-> IF c[i] = "x" THEN bit ELSE c[i]])

char_to_hi_zero(val) == char_to_bv(val, "0")

char_to_hi(val) == char_to_bv(val, "1")

char_to_lo(val) == char_to_bv(val, "0")

bzla_bvdomain_new_from_char(val) ==
  bzla_bvdomain_new(char_to_lo(val), char_to_hi(val))

bzla_bvdomain_new_fixed(bv) == [lo |-> bzla_bv_copy(bv), hi |-> bzla_bv_copy(bv)]

bzla_bvdomain_new_fixed_uint64(val, width) ==
  LET lo == bzla_bv_uint64_to_bv(val, width)
  IN  [lo |-> lo, hi |-> bzla_bv_copy(lo)]

bzla_bvdomain_copy(dd) == bzla_bvdomain_new(dd.lo, dd.hi)

bzla_bvdomain_is_equal(a, b) ==
  bzla_bv_compare(a.hi, b.hi) = 0 /\ bzla_bv_compare(a.lo, b.lo) = 0

bzla_bvdomain_slice(dd, hi, lo) ==
  [lo |-> bzla_bv_slice(dd.lo, hi, lo), hi |-> bzla_bv_slice(dd.hi, hi, lo)]

\* faulty variant of bzla_bvdomain_not: lo and hi are not swapped
not_without_swap(dd) == [lo |-> bzla_bv_not(dd.lo), hi |-> bzla_bv_not(dd.hi)]

bzla_bvdomain_not(dd) == [lo |-> bzla_bv_not(dd.hi), hi |-> bzla_bv_not(dd.lo)]

bzla_bvdomain_get_width(dd) == bzla_bv_get_width(dd.lo)

bzla_bvdomain_is_valid(dd) ==
  LET not_lo       == bzla_bv_not(dd.lo)
      not_lo_or_hi == bzla_bv_or(not_lo, dd.hi)
  IN  bzla_bv_is_ones(not_lo_or_hi)

bzla_bvdomain_is_fixed(dd) == bzla_bv_is_true(bzla_bv_eq(dd.lo, dd.hi))

bzla_bvdomain_has_fixed_bits(dd) ==
  bzla_bv_is_true(bzla_bv_redor(bzla_bv_xnor(dd.lo, dd.hi)))

bzla_bvdomain_fix_bit(dd, pos, value) ==
  [lo |-> bzla_bv_set_bit(dd.lo, pos, value),
   hi |-> bzla_bv_set_bit(dd.hi, pos, value)]

bzla_bvdomain_is_fixed_bit(dd, pos) ==
  bzla_bv_get_bit(dd.lo, pos) = bzla_bv_get_bit(dd.hi, pos)

bzla_bvdomain_is_fixed_bit_true(dd, pos) ==
  /\ bzla_bv_get_bit(dd.lo, pos) = 1
  /\ bzla_bv_get_bit(dd.lo, pos) = bzla_bv_get_bit(dd.hi, pos)

bzla_bvdomain_is_fixed_bit_false(dd, pos) ==
  /\ bzla_bv_get_bit(dd.lo, pos) = 0
  /\ bzla_bv_get_bit(dd.lo, pos) = bzla_bv_get_bit(dd.hi, pos)

check_fixed_bits_lo_only(dd, bv) ==
  bzla_bv_compare(bzla_bv_or(bv, dd.lo), bv) = 0

bzla_bvdomain_check_fixed_bits(dd, bv) ==
  LET and == bzla_bv_and(bv, dd.hi)
      or  == bzla_bv_or(and, dd.lo)
  IN  bzla_bv_compare(or, bv) = 0

\* the loop of bzla_bvdomain_is_consistent from index i on
RECURSIVE is_consistent_from(_, _, _)
is_consistent_from(dd, bv, i) ==
  IF i >= bzla_bv_get_width(bv) THEN TRUE
  ELSE IF /\ bzla_bvdomain_is_fixed_bit(dd, i)
          /\ bzla_bv_get_bit(dd.lo, i) # bzla_bv_get_bit(bv, i)
       THEN FALSE
       ELSE is_consistent_from(dd, bv, i + 1)

bzla_bvdomain_is_consistent(dd, bv) == is_consistent_from(dd, bv, 0)

bzla_bvdomain_to_char(dd) ==
  LET res == bzla_bv_to_char(dd.lo)
      hi  == bzla_bv_to_char(dd.hi)
  IN  [i \in 1 .. Len(res) |->
         IF res[i] # hi[i]
         THEN IF res[i] = "0" /\ hi[i] = "1" THEN "x" ELSE "?"
         ELSE res[i]]

---------------------------------------------------------------------------
(* Values of the variables a specification does not use.                   *)

WfNone == [done |-> FALSE]

FinNone == [num |-> NullBv, x |-> NoDomain, has_x |-> FALSE, excl_min_val |-> NullBv, has_excl |-> FALSE, limit |-> 0, mode |-> "none"]

GenNone == [bits |-> 0, bits_min |-> 0, bits_max |-> 0, domain |-> [self |-> 0, lo |-> 0, hi |-> 0], cur |-> 0, min |-> 0, max |-> 0]

GinNone == [d |-> NoDomain, min |-> NullBv, has_min |-> FALSE, max |-> NullBv, has_max |-> FALSE]

\* an initialised, empty stack: no buffer yet
StackNone == [start |-> 0, elems |-> <<>>]

InNone == [op |-> "none", x |-> NoDomain, t |-> NullBv, s |-> NullBv, pos_x |-> 0, upper |-> 0, lower |-> 0]

DomIdle ==
  /\ d = NoDomain /\ dorigin = "none" /\ dstr = <<>> /\ dchar = <<>>
  /\ dbv = NullBv /\ cfb = <<>> /\ cons = <<>>

FactIdle ==
  /\ wf = WfNone /\ fpc = "idle" /\ fin = FinNone /\ num_iterations = 0
  /\ fact = NullBv /\ rets = <<>> /\ gf_res = NullBv

GenIdle == gen = GenNone /\ gpc = "idle" /\ gin = GinNone /\ out = <<>>

InvIdle ==
  /\ pc = "idle" /\ in = InNone /\ arena = 0 /\ res_inv = <<>>
  /\ res_const = <<>> /\ ures = FALSE /\ candidates = StackNone

SdomNone == [width |-> 0, lo |-> 0, hi |-> 0]

StrIdle ==
  /\ s_buf = <<>> /\ s_buf_pos = 0 /\ buf_start = 0 /\ sdom = SdomNone
  /\ spc = "idle" /\ nprints = 0 /\ ndebug = FALSE

---------------------------------------------------------------------------
(* Specification of the domain operations: a domain is constructed, then   *)
(* transformed and queried in any order.                                   *)

\* ternary strings of length 1 .. MaxStrLen
TernaryStrings == UNION {[1 .. n -> {"0", "1", "x"}] : n \in 1 .. MaxStrLen}

DomWidths == 1 .. MaxDomW

DomInit == DomIdle /\ FactIdle /\ mem = <<>> /\ GenIdle /\ InvIdle /\ StrIdle

DomFrame == UNCHANGED <<factVars, mem, genVars, invVars, strVars>>

Built(o, dd, str) ==
  /\ d' = dd /\ dorigin' = o /\ dstr' = str
  /\ UNCHANGED <<dchar, dbv, cfb, cons>>

NewInit ==
  /\ dorigin = "none"
  /\ \E w \in DomWidths : Built("new_init", bzla_bvdomain_new_init(w), <<>>)
  /\ DomFrame

New ==
  /\ dorigin = "none"
  /\ \E w \in DomWidths : \E lo \in BvSet(w), hi \in BvSet(w) :
       Built("new", bzla_bvdomain_new(lo, hi), <<>>)
  /\ DomFrame

NewFromChar ==
  /\ dorigin = "none"
  /\ \E str \in TernaryStrings :
       Built("new_from_char", bzla_bvdomain_new_from_char(str), str)
  /\ DomFrame

NewFixed ==
  /\ dorigin = "none"
  /\ \E w \in DomWidths : \E bv \in BvSet(w) :
       Built("new_fixed", bzla_bvdomain_new_fixed(bv), <<>>)
  /\ DomFrame

NewFixedUint64 ==
  /\ dorigin = "none"
  /\ \E w \in DomWidths : \E val \in 0 .. Pow2(w) :
       Built("new_fixed_uint64", bzla_bvdomain_new_fixed_uint64(val, w), <<>>)
  /\ DomFrame

\* a transformation replaces d; earlier query results no longer describe it
Transformed(dd) ==
  /\ d' = dd
  /\ dstr' = <<>> /\ dchar' = <<>> /\ dbv' = NullBv /\ cfb' = <<>> /\ cons' = <<>>
  /\ UNCHANGED dorigin

Copy ==
  /\ dorigin # "none"
  /\ d' = bzla_bvdomain_copy(d)
  /\ UNCHANGED <<dorigin, dstr, dchar, dbv, cfb, cons>>
  /\ DomFrame

Not ==
  /\ dorigin # "none"
  /\ Transformed(bzla_bvdomain_not(d))
  /\ DomFrame

Slice ==
  /\ dorigin # "none"
  /\ \E hi \in 0 .. bzla_bvdomain_get_width(d) - 1 : \E lo \in 0 .. hi :
       Transformed(bzla_bvdomain_slice(d, hi, lo))
  /\ DomFrame

FixBit ==
  /\ dorigin # "none"
  /\ \E pos \in 0 .. bzla_bvdomain_get_width(d) - 1 : \E value \in {0, 1} :
       Transformed(bzla_bvdomain_fix_bit(d, pos, value))
  /\ DomFrame

ToChar ==
  /\ dorigin # "none"
  /\ DomFrame
  /\ dchar' = bzla_bvdomain_to_char(d)
  /\ UNCHANGED <<d, dorigin, dstr, dbv, cfb, cons>>

CheckFixedBits ==
  /\ dorigin # "none"
  /\ DomFrame
  /\ \E bv \in BvSet(bzla_bvdomain_get_width(d)) :
       /\ dbv' = bv
       /\ cfb' = <<bzla_bvdomain_check_fixed_bits(d, bv)>>
       /\ cons' = IF dbv = bv THEN cons ELSE <<>>
  /\ UNCHANGED <<d, dorigin, dstr, dchar>>

IsConsistent ==
  /\ dorigin # "none"
  /\ DomFrame
  /\ \E bv \in BvSet(bzla_bvdomain_get_width(d)) :
       /\ dbv' = bv
       /\ cons' = <<bzla_bvdomain_is_consistent(d, bv)>>
       /\ cfb' = IF dbv = bv THEN cfb ELSE <<>>
  /\ UNCHANGED <<d, dorigin, dstr, dchar>>

DomNext ==
  \/ NewInit \/ New \/ NewFromChar \/ NewFixed \/ NewFixedUint64
  \/ Copy \/ Not \/ Slice \/ FixBit
  \/ ToChar \/ CheckFixedBits \/ IsConsistent

SpecDom == DomInit /\ [][DomNext]_vars

---------------------------------------------------------------------------
(* bzla_bvdomain_to_str: the domain is printed into a static buffer that   *)
(* is reused round-robin.  The buffer has its real size, so the domains    *)
(* printed here are wider than an integer: such a domain is given by its   *)
(* width and by one bit for lo and one for hi, repeated at every position. *)

PRINT_BUFFER_SIZE == 1024

\* the character 0 that ends a C string
NUL == "NUL"

\* widths 1 .. MaxShortW, and the widths within NearW of the buffer size
MaxShortW == 2
NearW == 4
\* number of calls of bzla_bvdomain_to_str in a run
MaxPrints == 2

StrWidths ==
  (1 .. MaxShortW) \cup (PRINT_BUFFER_SIZE - NearW .. PRINT_BUFFER_SIZE + NearW)

StrDomains == [width : StrWidths, lo : {0, 1}, hi : {0, 1}]

\* the character printed for a position with bits bit_lo and bit_hi
to_str_char(bit_lo, bit_hi) ==
  IF bit_lo # bit_hi
  THEN (IF bit_lo = 0 /\ bit_hi = 1 THEN "x" ELSE "?")
  ELSE (IF bit_lo = 0 THEN "0" ELSE "1")

\* s_buf after the writes of one call: cnt characters c from offset start, then
\* the suffix "..." (if dots) and the NUL (if nul); writes at offsets outside
\* the buffer do not land in it
to_str_writes(buf, start, cnt, c, dots, nul) ==
  [j \in 1 .. PRINT_BUFFER_SIZE |->
     IF j - 1 \in start .. start + cnt - 1 THEN c
     ELSE IF dots /\ j - 1 \in start + cnt .. start + cnt + 2 THEN "."
     ELSE IF nul /\ j - 1 = start + cnt + (IF dots THEN 3 ELSE 0) THEN NUL
     ELSE buf[j]]

\* bzla_bvdomain_to_str(d) with the statics buf and pos; nd: asserts compiled
\* out.  status is "abort" if an assert fails and "ub" if a write falls outside
\* s_buf.
bzla_bvdomain_to_str(buf, pos, dd, nd) ==
  LET width       == dd.width
      too_long    == width + 1 >= PRINT_BUFFER_SIZE
      start       == IF width + 1 >= PRINT_BUFFER_SIZE - pos THEN 0 ELSE pos
      print_width == IF too_long THEN width - 3 ELSE width
      c           == to_str_char(dd.lo, dd.hi)
      \* first iteration i whose assert s_buf_pos < PRINT_BUFFER_SIZE - 1 fails
      i_fail      == IF PRINT_BUFFER_SIZE - 1 - start < 1 THEN 1
                     ELSE PRINT_BUFFER_SIZE - 1 - start
      Result(b, p, st) == [s_buf |-> b, s_buf_pos |-> p, buf_start |-> start, status |-> st]
      \* offset of the last character of the whole string, the NUL
      last        == start + print_width + (IF too_long THEN 3 ELSE 0)
  IN  IF ~nd /\ ~(pos <= PRINT_BUFFER_SIZE) THEN Result(buf, pos, "abort")
      ELSE IF ~nd /\ i_fail <= print_width
      THEN Result(to_str_writes(buf, start, i_fail, c, FALSE, FALSE), start + i_fail, "abort")
      ELSE IF ~nd /\ too_long /\ ~(start + print_width < PRINT_BUFFER_SIZE - 4)
      THEN Result(to_str_writes(buf, start, print_width, c, FALSE, FALSE),
                  start + print_width, "abort")
      ELSE Result(to_str_writes(buf, start, print_width, c, too_long, TRUE), last + 1,
                  IF last >= PRINT_BUFFER_SIZE THEN "ub" ELSE "ok")

StrFrame == UNCHANGED <<domVars, factVars, mem, genVars, invVars>>

\* the statics as the loader leaves them, in a build with or without asserts
StrInit ==
  /\ DomIdle /\ FactIdle /\ mem = <<>> /\ GenIdle /\ InvIdle
  /\ s_buf = [j \in 1 .. PRINT_BUFFER_SIZE |-> NUL]
  /\ s_buf_pos = 0 /\ buf_start = 0 /\ sdom = SdomNone
  /\ spc = "ready" /\ nprints = 0
  /\ ndebug \in BOOLEAN

ToStr ==
  /\ spc = "ready" /\ nprints < MaxPrints
  /\ \E dd \in StrDomains :
       LET r == bzla_bvdomain_to_str(s_buf, s_buf_pos, dd, ndebug)
       IN  /\ s_buf' = r.s_buf
           /\ s_buf_pos' = r.s_buf_pos
           /\ buf_start' = r.buf_start
           /\ sdom' = dd
           /\ spc' = IF r.status = "ok" THEN "ready" ELSE r.status
  /\ nprints' = nprints + 1
  /\ UNCHANGED ndebug
  /\ StrFrame

StrNext == ToStr

SpecStr == StrInit /\ [][StrNext]_vars

---------------------------------------------------------------------------
(* Wheel factorizer and bzla_bvdomain_get_factor.                          *)

\* largest number of wfact_next calls of one client (cuts endless call sequences)
MaxCalls == 8
\* largest width of the number handed to bzla_bvdomain_get_factor
MaxGfW == 3

wfact_init(n, limit) ==
  LET bw   == bzla_bv_get_width(n)
      one  == bzla_bv_one(bw)
      two  == bzla_bv_uint64_to_bv(2, bw)
      four == bzla_bv_uint64_to_bv(4, bw)
      six  == bzla_bv_uint64_to_bv(6, bw)
  IN  [done  |-> FALSE,
       limit |-> limit,
       one   |-> one, two |-> two, four |-> four, six |-> six,
       fact  |-> bzla_bv_copy(two),
       num   |-> bzla_bv_copy(n),
       pos   |-> 0,
       inc   |-> <<one, two, two, four, two, four, two, four, six, two, six>>]

\* faulty variant of wfact_next_pos: the cycle restarts at index 0
wfact_next_pos_restart(pos) == IF pos = 10 THEN 0 ELSE pos + 1

\* wf->pos = (wf->pos == 10) ? 3 : wf->pos + 1
wfact_next_pos(pos) == IF pos = 10 THEN 3 ELSE pos + 1

\* faulty variant of one iteration: the final factor is taken from fact, not num
wfact_next_iter_final_fact(w, ni) ==
  LET n_it == ni + 1
      fact_squared == bzla_bv_mul(w.fact, w.fact)
      quot == bzla_bv_udiv(w.num, w.fact)
      rem  == bzla_bv_urem(w.num, w.fact)
      tmp  == bzla_bv_add(w.fact, w.inc[w.pos + 1])
      ovfl == bzla_bv_compare(tmp, w.fact) <= 0
  IN  IF w.limit # 0 /\ n_it > w.limit
      THEN [wf |-> [w EXCEPT !.done = TRUE], num_iterations |-> n_it, brk |-> TRUE, res |-> NullBv]
      ELSE IF bzla_bv_compare(fact_squared, w.num) > 0
      THEN [wf |-> [w EXCEPT !.done = TRUE], num_iterations |-> n_it, brk |-> TRUE, res |-> w.fact]
      ELSE IF bzla_bv_is_zero(rem)
      THEN [wf |-> [w EXCEPT !.num = quot], num_iterations |-> n_it, brk |-> TRUE, res |-> w.fact]
      ELSE [wf |-> [w EXCEPT !.fact = tmp, !.pos = wfact_next_pos(w.pos), !.done = ovfl],
            num_iterations |-> n_it, brk |-> ovfl, res |-> NullBv]

\* one iteration of the while (true) loop of wfact_next: the factorizer and
\* the iteration count after it, whether the loop was left, and res
wfact_next_iter(w, ni) ==
  LET n_it == ni + 1
      fact_squared == bzla_bv_mul(w.fact, w.fact)
      quot == bzla_bv_udiv(w.num, w.fact)
      rem  == bzla_bv_urem(w.num, w.fact)
      tmp  == bzla_bv_add(w.fact, w.inc[w.pos + 1])
      ovfl == bzla_bv_compare(tmp, w.fact) <= 0
  IN  IF w.limit # 0 /\ n_it > w.limit
      THEN [wf |-> [w EXCEPT !.done = TRUE], num_iterations |-> n_it, brk |-> TRUE, res |-> NullBv]
      ELSE IF bzla_bv_compare(fact_squared, w.num) > 0
      THEN [wf |-> [w EXCEPT !.done = TRUE], num_iterations |-> n_it, brk |-> TRUE, res |-> w.num]
      ELSE IF bzla_bv_is_zero(rem)
      THEN [wf |-> [w EXCEPT !.num = quot], num_iterations |-> n_it, brk |-> TRUE, res |-> w.fact]
      ELSE [wf |-> [w EXCEPT !.fact = tmp, !.pos = wfact_next_pos(w.pos), !.done = ovfl],
            num_iterations |-> n_it, brk |-> ovfl, res |-> NullBv]

\* the while (true) loop of wfact_next from iteration ni + 1 on
RECURSIVE wfact_next_loop(_, _)
wfact_next_loop(w, ni) ==
  LET Continue(r) == IF r.brk THEN r ELSE wfact_next_loop(r.wf, r.num_iterations)
  IN  Continue(wfact_next_iter(w, ni))

\* one whole call of wfact_next: the factorizer after it and the value returned
wfact_next(w) ==
  IF w.done THEN [wf |-> w, res |-> NullBv]
  ELSE LET Out(r) == [wf |-> r.wf, res |-> r.res]
       IN  Out(wfact_next_loop(w, 0))

\* faulty variant of the acceptance test: a factor equal to excl_min_val passes
get_factor_accepts_ge(f, i) ==
  /\ (~i.has_excl \/ bzla_bv_compare(f, i.excl_min_val) >= 0)
  /\ (~i.has_x \/ bzla_bvdomain_check_fixed_bits(i.x, f))

\* the acceptance test of bzla_bvdomain_get_factor on the factor f
get_factor_accepts(f, i) ==
  /\ (~i.has_excl \/ bzla_bv_compare(f, i.excl_min_val) > 0)
  /\ (~i.has_x \/ bzla_bvdomain_check_fixed_bits(i.x, f))

ValidDomains(w) == {dd \in [lo : BvSet(w), hi : BvSet(w)] : bzla_bvdomain_is_valid(dd)}

\* a client that calls wfact_next until told otherwise
\* the arguments of a client that drains the factorizer of n with limit l
DrainInput(n, l) ==
  [num |-> n, x |-> NoDomain, has_x |-> FALSE, excl_min_val |-> NullBv,
   has_excl |-> FALSE, limit |-> l, mode |-> "drain"]

\* the arguments of a call of bzla_bvdomain_get_factor; x and e may be absent
GetFactorInput(n, x, e, l) ==
  [num |-> n, x |-> x, has_x |-> x # NoDomain, excl_min_val |-> e,
   has_excl |-> e # NullBv, limit |-> l, mode |-> "get_factor"]

FactFrame == UNCHANGED <<domVars, mem, genVars, invVars, strVars>>

FactInit ==
  /\ DomIdle /\ mem = <<>> /\ GenIdle /\ InvIdle /\ StrIdle
  /\ wf = WfNone /\ fpc = "start" /\ num_iterations = 0
  /\ fact = NullBv /\ rets = <<>> /\ gf_res = NullBv
  /\ \/ \E w \in 1 .. MaxFactW : \E n \in BvSet(w), l \in 0 .. MaxLimit :
          fin = DrainInput(n, l)
     \/ \E w \in 1 .. MaxGfW :
          \E n \in BvSet(w), x \in ValidDomains(w) \cup {NoDomain},
             e \in BvSet(w) \cup {NullBv}, l \in 0 .. MaxLimit :
            fin = GetFactorInput(n, x, e, l)

WfactInit ==
  /\ fpc = "start" /\ fin.mode = "drain"
  /\ wf' = wfact_init(fin.num, fin.limit)
  /\ fpc' = "ready"
  /\ UNCHANGED <<fin, num_iterations, fact, rets, gf_res>>
  /\ FactFrame

GetFactorEnter ==
  /\ fpc = "start" /\ fin.mode = "get_factor"
  /\ wf' = wfact_init(fin.num, fin.limit)
  /\ gf_res' = NullBv
  /\ fpc' = "ready"
  /\ UNCHANGED <<fin, num_iterations, fact, rets>>
  /\ FactFrame

\* where wfact_next returns to
Returned == IF fin.mode = "drain" THEN "ready" ELSE "test"

\* entry of wfact_next
WfactCall ==
  /\ fpc = "ready" /\ Len(rets) < MaxCalls
  /\ IF wf.done
     THEN /\ fact' = NullBv /\ rets' = Append(rets, NullBv) /\ fpc' = Returned
          /\ UNCHANGED num_iterations
     ELSE /\ num_iterations' = 0 /\ fpc' = "loop"
          /\ UNCHANGED <<fact, rets>>
  /\ UNCHANGED <<wf, fin, gf_res>>
  /\ FactFrame

\* one iteration of the loop of wfact_next
WfactIter ==
  /\ fpc = "loop"
  /\ LET r == wfact_next_iter(wf, num_iterations)
     IN  /\ wf' = r.wf
         /\ num_iterations' = r.num_iterations
         /\ IF r.brk
            THEN fact' = r.res /\ rets' = Append(rets, r.res) /\ fpc' = Returned
            ELSE UNCHANGED <<fact, rets, fpc>>
  /\ UNCHANGED <<fin, gf_res>>
  /\ FactFrame

\* the body of the loop of bzla_bvdomain_get_factor after wfact_next returned
GetFactorTest ==
  /\ fpc = "test"
  /\ IF fact = NullBv
     THEN gf_res' = NullBv /\ fpc' = "gf_done"
     ELSE IF get_factor_accepts(fact, fin)
     THEN gf_res' = bzla_bv_copy(fact) /\ fpc' = "gf_done"
     ELSE UNCHANGED gf_res /\ fpc' = "ready"
  /\ UNCHANGED <<wf, fin, num_iterations, fact, rets>>
  /\ FactFrame

FactNext == WfactInit \/ GetFactorEnter \/ WfactCall \/ WfactIter \/ GetFactorTest

SpecFact == FactInit /\ [][FactNext]_vars

---------------------------------------------------------------------------
(* The arena.  mem[a] is the object at address a; allocation appends a     *)
(* cell, release overwrites it with FREED.  STRUCT stands for an allocated *)
(* object that is not a bit-vector: a BzlaBvDomain struct (its two         *)
(* pointers are kept beside its address) or the buffer of a stack.         *)

FREED == [w |-> 0, v |-> -1]

STRUCT == [w |-> 0, v |-> -2]

Alloc(m, obj) == Append(m, obj)

\* the address the next allocation returns
NewAddr(m) == Len(m) + 1

Free(m, a) == [m EXCEPT ![a] = FREED]

FreeIf(m, a) == IF a = 0 THEN m ELSE Free(m, a)

\* number of objects of the arena not yet released
Live(m) == Cardinality({a \in 1 .. Len(m) : m[a] # FREED})

\* the domain a BzlaBvDomain pointer refers to
Deref(m, dp) == [lo |-> m[dp.lo], hi |-> m[dp.hi]]

---------------------------------------------------------------------------
(* Domain value generator (random = false; the random mode needs an RNG    *)
(* and is not modelled).                                                   *)

\* number of positions i .. bw-1 of dd that are not fixed
RECURSIVE count_unfixed(_, _)
count_unfixed(dd, i) ==
  IF i >= bzla_bv_get_width(dd.lo) THEN 0
  ELSE (IF bzla_bvdomain_is_fixed_bit(dd, i) THEN 0 ELSE 1) + count_unfixed(dd, i + 1)

\* faulty variant of set_bits_from: the free position next to j0 is skipped
RECURSIVE set_bits_from_skip(_, _, _, _)
set_bits_from_skip(bv, k, cnt, bit) ==
  IF k + 1 >= cnt THEN bv
  ELSE set_bits_from_skip(bzla_bv_set_bit(bv, cnt - 2 - k, bit), k + 1, cnt, bit)

\* for (k = k0; k < cnt; k++) bzla_bv_set_bit(bv, cnt - 1 - k, bit)
RECURSIVE set_bits_from(_, _, _, _)
set_bits_from(bv, k, cnt, bit) ==
  IF k >= cnt THEN bv
  ELSE set_bits_from(bzla_bv_set_bit(bv, cnt - 1 - k, bit), k + 1, cnt, bit)

\* faulty variant of bits_min_j0: every free position is recorded
bits_min_j0_any(bit, j, j0) == j

\* if (!bit) j0 = j: the last free position where bits_min holds 0
bits_min_j0(bit, j, j0) == IF bit = 0 THEN j ELSE j0

\* faulty variant of bits_min_step: the copied bit is written through min
bits_min_step_writes_min(m, bmin, dp, minp, i, j, j0) ==
  LET dd    == Deref(m, dp)
      bw    == bzla_bv_get_width(dd.lo)
      cnt   == bzla_bv_get_width(m[bmin])
      idx_i == bw - 1 - i
      bit   == bzla_bv_get_bit(m[minp], idx_i)
  IN  IF ~bzla_bvdomain_is_fixed_bit(dd, idx_i)
      THEN [mem |-> [m EXCEPT ![minp] = bzla_bv_set_bit(m[minp], cnt - 1 - j, bit)],
            j |-> j + 1, j0 |-> bits_min_j0(bit, j, j0), brk |-> FALSE, ok |-> j < cnt]
      ELSE IF bzla_bvdomain_is_fixed_bit_true(dd, idx_i) /\ bit = 0
      THEN [mem |-> m, j |-> j, j0 |-> j0, brk |-> TRUE, ok |-> TRUE]
      ELSE IF bzla_bvdomain_is_fixed_bit_false(dd, idx_i) /\ bit = 1
      THEN [mem |-> [m EXCEPT ![bmin] =
                       set_bits_from(bzla_bv_set_bit(m[bmin], cnt - 1 - j0, 1), j0 + 1, cnt, 0)],
            j |-> j, j0 |-> j0, brk |-> TRUE,
            ok |-> j > 0 /\ bzla_bv_get_bit(m[bmin], cnt - j0 - 1) = 0]
      ELSE [mem |-> m, j |-> j, j0 |-> j0, brk |-> FALSE, ok |-> TRUE]

\* iteration i of the loop that derives gen->bits_min (at address bmin) from
\* min (at address minp) and the domain dp; ok is false if an assert fails
bits_min_step(m, bmin, dp, minp, i, j, j0) ==
  LET dd    == Deref(m, dp)
      bw    == bzla_bv_get_width(dd.lo)
      cnt   == bzla_bv_get_width(m[bmin])
      idx_i == bw - 1 - i
      bit   == bzla_bv_get_bit(m[minp], idx_i)
  IN  IF ~bzla_bvdomain_is_fixed_bit(dd, idx_i)
      THEN [mem |-> [m EXCEPT ![bmin] = bzla_bv_set_bit(m[bmin], cnt - 1 - j, bit)],
            j |-> j + 1, j0 |-> bits_min_j0(bit, j, j0), brk |-> FALSE, ok |-> j < cnt]
      ELSE IF bzla_bvdomain_is_fixed_bit_true(dd, idx_i) /\ bit = 0
      THEN [mem |-> m, j |-> j, j0 |-> j0, brk |-> TRUE, ok |-> TRUE]
      ELSE IF bzla_bvdomain_is_fixed_bit_false(dd, idx_i) /\ bit = 1
      THEN [mem |-> [m EXCEPT ![bmin] =
                       set_bits_from(bzla_bv_set_bit(m[bmin], cnt - 1 - j0, 1), j0 + 1, cnt, 0)],
            j |-> j, j0 |-> j0, brk |-> TRUE,
            ok |-> j > 0 /\ bzla_bv_get_bit(m[bmin], cnt - j0 - 1) = 0]
      ELSE [mem |-> m, j |-> j, j0 |-> j0, brk |-> FALSE, ok |-> TRUE]

\* the loop deriving bits_min, from iteration i on
RECURSIVE bits_min_scan(_, _, _, _, _, _, _)
bits_min_scan(m, bmin, dp, minp, i, j, j0) ==
  IF i >= bzla_bv_get_width(m[dp.lo]) THEN [mem |-> m, ok |-> TRUE]
  ELSE LET Continue(r) ==
             IF r.brk \/ ~r.ok THEN [mem |-> r.mem, ok |-> r.ok]
             ELSE bits_min_scan(r.mem, bmin, dp, minp, i + 1, r.j, r.j0)
       IN  Continue(bits_min_step(m, bmin, dp, minp, i, j, j0))

\* faulty variant of bits_max_step: the repair keeps the lower free bits
bits_max_step_no_fill(m, bmax, dp, maxp, i, j, j0) ==
  LET dd    == Deref(m, dp)
      bw    == bzla_bv_get_width(dd.lo)
      cnt   == bzla_bv_get_width(m[bmax])
      idx_i == bw - 1 - i
      bit   == bzla_bv_get_bit(m[maxp], idx_i)
  IN  IF ~bzla_bvdomain_is_fixed_bit(dd, idx_i)
      THEN [mem |-> [m EXCEPT ![bmax] = bzla_bv_set_bit(m[bmax], cnt - 1 - j, bit)],
            j |-> j + 1, j0 |-> IF bit = 1 THEN j ELSE j0, brk |-> FALSE, ok |-> j < cnt]
      ELSE IF bzla_bvdomain_is_fixed_bit_true(dd, idx_i) /\ bit = 0
      THEN [mem |-> [m EXCEPT ![bmax] = bzla_bv_set_bit(m[bmax], cnt - 1 - j0, 0)],
            j |-> j, j0 |-> j0, brk |-> TRUE,
            ok |-> j > 0 /\ bzla_bv_get_bit(m[bmax], cnt - j0 - 1) = 1]
      ELSE IF bzla_bvdomain_is_fixed_bit_false(dd, idx_i) /\ bit = 1
      THEN [mem |-> m, j |-> j, j0 |-> j0, brk |-> TRUE, ok |-> TRUE]
      ELSE [mem |-> m, j |-> j, j0 |-> j0, brk |-> FALSE, ok |-> TRUE]

\* iteration i of the loop that derives gen->bits_max (at address bmax) from
\* max (at address maxp) and the domain dp; ok is false if an assert fails
bits_max_step(m, bmax, dp, maxp, i, j, j0) ==
  LET dd    == Deref(m, dp)
      bw    == bzla_bv_get_width(dd.lo)
      cnt   == bzla_bv_get_width(m[bmax])
      idx_i == bw - 1 - i
      bit   == bzla_bv_get_bit(m[maxp], idx_i)
  IN  IF ~bzla_bvdomain_is_fixed_bit(dd, idx_i)
      THEN [mem |-> [m EXCEPT ![bmax] = bzla_bv_set_bit(m[bmax], cnt - 1 - j, bit)],
            j |-> j + 1, j0 |-> IF bit = 1 THEN j ELSE j0, brk |-> FALSE, ok |-> j < cnt]
      ELSE IF bzla_bvdomain_is_fixed_bit_true(dd, idx_i) /\ bit = 0
      THEN [mem |-> [m EXCEPT ![bmax] =
                       set_bits_from(bzla_bv_set_bit(m[bmax], cnt - 1 - j0, 0), j0 + 1, cnt, 1)],
            j |-> j, j0 |-> j0, brk |-> TRUE,
            ok |-> j > 0 /\ bzla_bv_get_bit(m[bmax], cnt - j0 - 1) = 1]
      ELSE IF bzla_bvdomain_is_fixed_bit_false(dd, idx_i) /\ bit = 1
      THEN [mem |-> m, j |-> j, j0 |-> j0, brk |-> TRUE, ok |-> TRUE]
      ELSE [mem |-> m, j |-> j, j0 |-> j0, brk |-> FALSE, ok |-> TRUE]

\* the loop deriving bits_max, from iteration i on
RECURSIVE bits_max_scan(_, _, _, _, _, _, _)
bits_max_scan(m, bmax, dp, maxp, i, j, j0) ==
  IF i >= bzla_bv_get_width(m[dp.lo]) THEN [mem |-> m, ok |-> TRUE]
  ELSE LET Continue(r) ==
             IF r.brk \/ ~r.ok THEN [mem |-> r.mem, ok |-> r.ok]
             ELSE bits_max_scan(r.mem, bmax, dp, maxp, i + 1, r.j, r.j0)
       IN  Continue(bits_max_step(m, bmax, dp, maxp, i, j, j0))

\* bzla_bvdomain_new(mm, d->lo, d->hi) on the arena: the struct, then the
\* copies of lo and hi
bzla_bvdomain_copy_mem(m, dp) ==
  LET m1 == Alloc(m, STRUCT)
      m2 == Alloc(m1, bzla_bv_copy(m1[dp.lo]))
      m3 == Alloc(m2, bzla_bv_copy(m2[dp.hi]))
  IN  [mem |-> m3, dp |-> [self |-> NewAddr(m), lo |-> NewAddr(m1), hi |-> NewAddr(m2)]]

\* bzla_bvdomain_free on the arena
bzla_bvdomain_free_mem(m, dp) == Free(Free(Free(m, dp.lo), dp.hi), dp.self)

\* faulty variant of gen_init_bits_wanted: equal bounds count as an empty range
gen_init_bits_wanted_strict(m, bmin, bmax) == bzla_bv_compare(m[bmin], m[bmax]) < 0

\* the test that decides whether gen->bits is allocated
gen_init_bits_wanted(m, bmin, bmax) == bzla_bv_compare(m[bmin], m[bmax]) <= 0

\* dp points to the domain, min0 / max0 to the range bounds (0 if not given);
\* ok is false if an assert of the function fails
bzla_bvdomain_gen_init_range(m, dp, min0, max0) ==
  LET cnt     == count_unfixed(Deref(m, dp), 0)
      minp    == IF min0 = 0 \/ bzla_bv_compare(m[dp.lo], m[min0]) > 0 THEN dp.lo ELSE min0
      maxp    == IF max0 = 0 \/ bzla_bv_compare(m[dp.hi], m[max0]) < 0 THEN dp.hi ELSE max0
      inrange == /\ cnt # 0
                 /\ bzla_bv_compare(m[minp], m[dp.hi]) <= 0
                 /\ bzla_bv_compare(m[maxp], m[dp.lo]) >= 0
      ok0     == /\ bzla_bv_compare(m[minp], m[dp.lo]) >= 0
                 /\ bzla_bv_compare(m[maxp], m[dp.hi]) <= 0
      \* gen->domain, gen->min and gen->max, allocated after the bit counters
      Finish(mm, bits, bits_min, bits_max, ok) ==
        LET WithDomain(c) ==
              LET WithMin(m5) ==
                    [mem |-> Alloc(m5, bzla_bv_copy(m5[maxp])),
                     gen |-> [bits     |-> bits,
                              bits_min |-> bits_min,
                              bits_max |-> bits_max,
                              domain   |-> c.dp,
                              cur      |-> 0,
                              min      |-> NewAddr(c.mem),
                              max      |-> NewAddr(m5)],
                     ok  |-> ok]
              IN  WithMin(Alloc(c.mem, bzla_bv_copy(c.mem[minp])))
        IN  WithDomain(bzla_bvdomain_copy_mem(mm, dp))
      \* gen->bits is a copy of bits_min unless bits_min > bits_max
      WithBits(r1, r2, bmin, bmax) ==
        IF gen_init_bits_wanted(r2.mem, bmin, bmax)
        THEN Finish(Alloc(r2.mem, bzla_bv_copy(r2.mem[bmin])), NewAddr(r2.mem), bmin, bmax,
                    ok0 /\ r1.ok /\ r2.ok)
        ELSE Finish(r2.mem, 0, bmin, bmax, ok0 /\ r1.ok /\ r2.ok)
      WithBitsMin(r1) ==
        WithBits(r1,
                 bits_max_scan(Alloc(r1.mem, bzla_bv_ones(cnt)), NewAddr(r1.mem), dp, maxp, 0, 0, 0),
                 NewAddr(m), NewAddr(r1.mem))
  IN  IF inrange
      THEN WithBitsMin(bits_min_scan(Alloc(m, bzla_bv_new(cnt)), NewAddr(m), dp, minp, 0, 0, 0))
      ELSE Finish(m, 0, 0, 0, TRUE)

bzla_bvdomain_gen_init(m, dp) == bzla_bvdomain_gen_init_range(m, dp, 0, 0)

\* faulty variant of bzla_bvdomain_gen_has_next: bits = bits_max counts as exhausted
gen_has_next_before_max(m, g) ==
  g.bits # 0 /\ bzla_bv_compare(m[g.bits], m[g.bits_max]) < 0

bzla_bvdomain_gen_has_next(m, g) ==
  g.bits # 0 /\ bzla_bv_compare(m[g.bits], m[g.bits_max]) <= 0

\* the loop of gen_next_bits that spreads bits over the free positions of dd
RECURSIVE gen_spread_bits(_, _, _, _, _)
gen_spread_bits(res, dd, bits, i, j) ==
  IF i >= bzla_bv_get_width(dd.lo) THEN res
  ELSE IF ~bzla_bvdomain_is_fixed_bit(dd, i)
       THEN gen_spread_bits(bzla_bv_set_bit(res, i, bzla_bv_get_bit(bits, j)), dd, bits, i + 1, j + 1)
       ELSE gen_spread_bits(res, dd, bits, i + 1, j)

\* gen_next_bits(gen, false); res is the address of the returned value
gen_next_bits(m, g) ==
  LET res == NewAddr(m)
      \* res = copy of domain->lo with gen->bits spread over the free positions
      Spread(m1) ==
        [m1 EXCEPT ![res] = gen_spread_bits(m1[res], Deref(m1, g.domain), m1[g.bits], 0, 0)]
      \* gen->bits is released at bits_max and replaced by its successor otherwise
      Advance(m2) ==
        IF bzla_bv_compare(m2[g.bits], m2[g.bits_max]) = 0
        THEN [mem |-> Free(m2, g.bits), bits |-> 0]
        ELSE [mem |-> Free(Alloc(m2, bzla_bv_inc(m2[g.bits])), g.bits), bits |-> NewAddr(m2)]
      \* gen->cur is released and replaced by res
      Result(a) ==
        [mem |-> FreeIf(a.mem, g.cur),
         gen |-> [g EXCEPT !.bits = a.bits, !.cur = res],
         res |-> res,
         ok  |-> /\ a.bits = 0 \/ bzla_bv_compare(a.mem[a.bits], a.mem[g.bits_min]) >= 0
                 /\ a.bits = 0 \/ bzla_bv_compare(a.mem[a.bits], a.mem[g.bits_max]) <= 0
                 /\ bzla_bv_compare(a.mem[res], a.mem[g.min]) >= 0
                 /\ bzla_bv_compare(a.mem[res], a.mem[g.max]) <= 0]
  IN  Result(Advance(Spread(Alloc(m, bzla_bv_copy(m[g.domain.lo])))))

bzla_bvdomain_gen_next(m, g) == gen_next_bits(m, g)

bzla_bvdomain_gen_delete(m, g) ==
  LET m1 == FreeIf(FreeIf(FreeIf(m, g.bits), g.bits_min), g.bits_max)
      m2 == FreeIf(bzla_bvdomain_free_mem(m1, g.domain), g.cur)
  IN  FreeIf(FreeIf(m2, g.min), g.max)

---------------------------------------------------------------------------
(* Specification SpecGen: a client initialises a generator over a domain   *)
(* (valid or not) with an optional range, draws values while has_next holds, and   *)
(* deletes the generator.  The caller's objects sit at fixed addresses.    *)

\* addresses of the caller's objects: the domain's lo and hi, min, max
GenArgs == [lo |-> 1, hi |-> 2, min |-> 3, max |-> 4]

GenWidths == 1 .. MaxGenW

\* the caller's objects; a bound that is not given is a released cell
GenMem(gi) ==
  <<gi.d.lo, gi.d.hi, IF gi.has_min THEN gi.min ELSE FREED, IF gi.has_max THEN gi.max ELSE FREED>>

GenFrame == UNCHANGED <<domVars, factVars, invVars, strVars>>

\* any domain (valid or not) of width 1 .. MaxGenW, each bound given or not
GenInit ==
  /\ DomIdle /\ FactIdle /\ InvIdle /\ StrIdle
  /\ \E w \in GenWidths :
       \E lo \in BvSet(w), hi \in BvSet(w), has_min \in BOOLEAN, has_max \in BOOLEAN :
         \E min \in IF has_min THEN BvSet(w) ELSE {Bv(w, 0)},
            max \in IF has_max THEN BvSet(w) ELSE {Bv(w, 0)} :
           gin = [d |-> [lo |-> lo, hi |-> hi], min |-> min, has_min |-> has_min,
                  max |-> max, has_max |-> has_max]
  /\ mem = GenMem(gin)
  /\ gen = GenNone
  /\ gpc = "start"
  /\ out = <<>>

GenInitRange ==
  /\ gpc = "start"
  /\ LET r == bzla_bvdomain_gen_init_range(mem, [lo |-> GenArgs.lo, hi |-> GenArgs.hi],
                                           IF gin.has_min THEN GenArgs.min ELSE 0,
                                           IF gin.has_max THEN GenArgs.max ELSE 0)
     IN  /\ mem' = r.mem
         /\ gen' = r.gen
         /\ gpc' = IF r.ok THEN "ready" ELSE "abort"
  /\ UNCHANGED <<gin, out>>
  /\ GenFrame

GenNext ==
  /\ gpc = "ready"
  /\ bzla_bvdomain_gen_has_next(mem, gen)
  /\ LET r == bzla_bvdomain_gen_next(mem, gen)
     IN  /\ mem' = r.mem
         /\ gen' = r.gen
         /\ out' = Append(out, r.mem[r.res])
         /\ gpc' = IF r.ok THEN "ready" ELSE "abort"
  /\ UNCHANGED gin
  /\ GenFrame

GenDelete ==
  /\ gpc = "ready"
  /\ mem' = bzla_bvdomain_gen_delete(mem, gen)
  /\ gpc' = "deleted"
  /\ UNCHANGED <<gen, gin, out>>
  /\ GenFrame

GenSpecNext == GenInitRange \/ GenNext \/ GenDelete

SpecGen == GenInit /\ [][GenSpecNext]_vars

---------------------------------------------------------------------------
(* Invertibility oracles without constant bits.  An oracle yields its      *)
(* result together with the number of bit-vectors it allocated and the     *)
(* number it released on the path taken.                                   *)

Ret(res, allocs, frees) == [res |-> res, allocs |-> allocs, frees |-> frees]

bzla_is_inv_add(x, t, s, pos_x) == Ret(TRUE, 0, 0)

bzla_is_inv_and(x, t, s, pos_x) ==
  LET t_and_s == bzla_bv_and(t, s)
  IN  Ret(bzla_bv_compare(t_and_s, t) = 0, 1, 1)

bzla_is_inv_concat(x, t, s, pos_x) ==
  LET bw_s  == bzla_bv_get_width(s)
      bw_t  == bzla_bv_get_width(t)
      slice == IF pos_x = 0 THEN bzla_bv_slice(t, bw_s - 1, 0)
               ELSE bzla_bv_slice(t, bw_t - 1, bw_t - bw_s)
  IN  Ret(bzla_bv_compare(s, slice) = 0, 1, 1)

bzla_is_inv_eq(x, t, s, pos_x) == Ret(TRUE, 0, 0)

bzla_is_inv_mul(x, t, s, pos_x) ==
  LET neg_s      == bzla_bv_neg(s)
      neg_s_or_s == bzla_bv_or(neg_s, s)
      and_t      == bzla_bv_and(neg_s_or_s, t)
  IN  Ret(bzla_bv_compare(and_t, t) = 0, 3, 3)

\* the loop for (i = i0; i <= bw_s && !res; i++) of bzla_is_inv_sll, pos_x = 1;
\* n counts the iterations run
RECURSIVE is_inv_sll_loop(_, _, _, _, _)
is_inv_sll_loop(t, s, i, res, n) ==
  LET bw_s == bzla_bv_get_width(s)
  IN  IF ~(i <= bw_s /\ ~res) THEN [res |-> res, n |-> n]
      ELSE LET bv_i    == bzla_bv_uint64_to_bv(i, bw_s)
               s_sll_i == bzla_bv_sll(s, bv_i)
           IN  is_inv_sll_loop(t, s, i + 1, bzla_bv_compare(s_sll_i, t) = 0, n + 1)

\* faulty variant of bzla_is_inv_sll: the loop stops before i = bw_s
is_inv_sll_exclusive(x, t, s, pos_x) ==
  IF pos_x = 0
  THEN LET t_srl_s == bzla_bv_srl(t, s)
           sll_s   == bzla_bv_sll(t_srl_s, s)
       IN  Ret(bzla_bv_compare(sll_s, t) = 0, 2, 2)
  ELSE Ret(\E i \in 0 .. bzla_bv_get_width(s) - 1 :
             bzla_bv_compare(bzla_bv_sll(s, bzla_bv_uint64_to_bv(i, bzla_bv_get_width(s))), t) = 0,
           0, 0)

bzla_is_inv_sll(x, t, s, pos_x) ==
  IF pos_x = 0
  THEN LET t_srl_s == bzla_bv_srl(t, s)
           sll_s   == bzla_bv_sll(t_srl_s, s)
       IN  Ret(bzla_bv_compare(sll_s, t) = 0, 2, 2)
  ELSE LET l == is_inv_sll_loop(t, s, 0, FALSE, 0)
       IN  Ret(l.res, 2 * l.n, 2 * l.n)

\* the loop for (i = i0; i <= bw_s && !res; i++) of bzla_is_inv_srl, pos_x = 1
RECURSIVE is_inv_srl_loop(_, _, _, _, _)
is_inv_srl_loop(t, s, i, res, n) ==
  LET bw_s == bzla_bv_get_width(s)
  IN  IF ~(i <= bw_s /\ ~res) THEN [res |-> res, n |-> n]
      ELSE LET bv_i    == bzla_bv_uint64_to_bv(i, bw_s)
               s_srl_i == bzla_bv_srl(s, bv_i)
           IN  is_inv_srl_loop(t, s, i + 1, bzla_bv_compare(s_srl_i, t) = 0, n + 1)

bzla_is_inv_srl(x, t, s, pos_x) ==
  IF pos_x = 0
  THEN LET t_sll_s == bzla_bv_sll(t, s)
           srl_s   == bzla_bv_srl(t_sll_s, s)
       IN  Ret(bzla_bv_compare(srl_s, t) = 0, 2, 2)
  ELSE LET l == is_inv_srl_loop(t, s, 0, FALSE, 0)
       IN  Ret(l.res, 2 * l.n, 2 * l.n)

bzla_is_inv_ult(x, t, s, pos_x) ==
  IF pos_x = 0
  THEN Ret(bzla_bv_is_zero(t) \/ ~bzla_bv_is_zero(s), 0, 0)
  ELSE Ret(bzla_bv_is_zero(t) \/ ~bzla_bv_is_ones(s), 0, 0)

bzla_is_inv_udiv(x, t, s, pos_x) ==
  LET udiv == IF pos_x = 0
              THEN LET s_mul_t == bzla_bv_mul(s, t) IN bzla_bv_udiv(s_mul_t, s)
              ELSE LET s_udiv_t == bzla_bv_udiv(s, t) IN bzla_bv_udiv(s, s_udiv_t)
  IN  Ret(bzla_bv_compare(udiv, t) = 0, 2, 2)

bzla_is_inv_urem(x, t, s, pos_x) ==
  LET neg_s == bzla_bv_neg(s)
  IN  IF pos_x = 0
      THEN LET not_neg_s == bzla_bv_not(neg_s)
           IN  Ret(bzla_bv_compare(t, not_neg_s) <= 0, 2, 2)
      ELSE LET t_add_t == bzla_bv_add(t, t)
               sub_s   == bzla_bv_add(t_add_t, neg_s)
               and_s   == bzla_bv_and(sub_s, s)
           IN  Ret(bzla_bv_compare(t, and_s) <= 0, 4, 4)

bzla_is_inv_slice(x, t, upper, lower) == Ret(TRUE, 0, 0)

---------------------------------------------------------------------------
(* Invertibility oracles with constant bits of x.                          *)

\* faulty variant of check_const_bits: the bits fixed to 1 are not compared
check_const_bits_hi_only(dd, bv) ==
  bzla_bv_compare(bzla_bv_and(bv, dd.hi), bv) = 0

\* 2 allocations, 2 releases
check_const_bits(dd, bv) ==
  LET and == bzla_bv_and(bv, dd.hi)
      or  == bzla_bv_or(and, dd.lo)
  IN  bzla_bv_compare(or, bv) = 0

\* 3 allocations, 3 releases
check_const_bits_val(dd, val) ==
  LET bw == bzla_bv_get_width(dd.lo)
      bv == IF val # 0 THEN bzla_bv_ones(bw) ELSE bzla_bv_new(bw)
  IN  check_const_bits(dd, bv)

\* 5 allocations, 5 releases
check_const_domain_bits(d1, d2) ==
  LET const_d1  == bzla_bv_xnor(d1.lo, d1.hi)
      const_d2  == bzla_bv_xnor(d2.lo, d2.hi)
      common    == bzla_bv_and(const_d1, const_d2)
      masked_d1 == bzla_bv_and(common, d1.lo)
      masked_d2 == bzla_bv_and(common, d2.lo)
  IN  bzla_bv_compare(masked_d1, masked_d2) = 0

bzla_is_inv_add_const(x, t, s, pos_x) ==
  LET sub == bzla_bv_sub(t, s)
  IN  Ret(check_const_bits(x, sub), 1 + 2, 1 + 2)

\* faulty variant of bzla_is_inv_and_const: no call of bzla_is_inv_and
is_inv_and_const_mask_only(x, t, s, pos_x) ==
  LET mask == bzla_bv_xnor(x.lo, x.hi)
      and1 == bzla_bv_and(s, x.hi)
      and2 == bzla_bv_and(and1, mask)
      and3 == bzla_bv_and(t, mask)
  IN  Ret(bzla_bv_compare(and2, and3) = 0, 4, 4)

bzla_is_inv_and_const(x, t, s, pos_x) ==
  LET o    == bzla_is_inv_and(x, t, s, pos_x)
      mask == bzla_bv_xnor(x.lo, x.hi)
      and1 == bzla_bv_and(s, x.hi)
      and2 == bzla_bv_and(and1, mask)
      and3 == bzla_bv_and(t, mask)
  IN  IF ~o.res THEN Ret(FALSE, o.allocs, o.frees)
      ELSE Ret(bzla_bv_compare(and2, and3) = 0, o.allocs + 4, o.frees + 4)

bzla_is_inv_concat_const(x, t, s, pos_x) ==
  LET bw_t  == bzla_bv_get_width(t)
      bw_s  == bzla_bv_get_width(s)
      bw_x  == bzla_bvdomain_get_width(x)
      t_h   == IF pos_x = 0 THEN bzla_bv_slice(t, bw_t - 1, bw_s)
               ELSE bzla_bv_slice(t, bw_t - 1, bw_x)
      t_l   == IF pos_x = 0 THEN bzla_bv_slice(t, bw_s - 1, 0)
               ELSE bzla_bv_slice(t, bw_x - 1, 0)
      t_and == IF pos_x = 0 THEN t_h ELSE t_l
      t_s   == IF pos_x = 0 THEN t_l ELSE t_h
      and   == bzla_bv_and(t_and, x.hi)
      or    == bzla_bv_or(and, x.lo)
  IN  Ret(bzla_bv_compare(or, t_and) = 0 /\ bzla_bv_compare(s, t_s) = 0, 4, 4)

bzla_is_inv_eq_const(x, t, s, pos_x) ==
  IF bzla_bv_is_false(t)
  THEN Ret(bzla_bv_compare(x.hi, x.lo) # 0 \/ bzla_bv_compare(x.hi, s) # 0, 0, 0)
  ELSE Ret(check_const_bits(x, s), 2, 2)

\* faulty variant of mul_const_d_tmp_x: the low ctz(s) bits are the free ones
mul_const_d_tmp_x_low_free(t, s) ==
  LET tz_s      == bzla_bv_get_num_trailing_zeros(s)
      tmp_s     == bzla_bv_srl_uint64(s, tz_s)
      tmp_t     == bzla_bv_srl_uint64(t, tz_s)
      mod_inv_s == bzla_bv_mod_inverse(tmp_s)
      tmp_x     == bzla_bv_mul(mod_inv_s, tmp_t)
      ones      == bzla_bv_ones(bzla_bv_get_width(tmp_x))
      mask_hi   == bzla_bv_srl_uint64(ones, bzla_bv_get_width(tmp_x) - tz_s)
      mask_lo   == bzla_bv_not(mask_hi)
      lo        == bzla_bv_and(mask_lo, tmp_x)
      hi        == bzla_bv_or(mask_hi, tmp_x)
  IN  bzla_bvdomain_new(lo, hi)

\* the domain d_tmp_x that bzla_is_inv_mul_const builds for an even s # 0:
\* x = (t >> ctz(s)) * (s >> ctz(s))^-1 with its most significant ctz(s)
\* bits set to 'x'
mul_const_d_tmp_x(t, s) ==
  LET tz_s      == bzla_bv_get_num_trailing_zeros(s)
      tmp_s     == bzla_bv_srl_uint64(s, tz_s)
      tmp_t     == bzla_bv_srl_uint64(t, tz_s)
      mod_inv_s == bzla_bv_mod_inverse(tmp_s)
      tmp_x     == bzla_bv_mul(mod_inv_s, tmp_t)
      ones      == bzla_bv_ones(bzla_bv_get_width(tmp_x))
      mask_lo   == bzla_bv_srl_uint64(ones, tz_s)
      mask_hi   == bzla_bv_not(mask_lo)
      lo        == bzla_bv_and(mask_lo, tmp_x)
      hi        == bzla_bv_or(mask_hi, tmp_x)
  IN  bzla_bvdomain_new(lo, hi)

\* the branch of bzla_is_inv_mul_const for an even s # 0 and a domain with
\* fixed and free bits: 9 bit-vectors, the domain d_tmp_x (3) and the 5 of
\* check_const_domain_bits are allocated, and all of them released
is_inv_mul_const_even(x, t, s) ==
  Ret(check_const_domain_bits(mul_const_d_tmp_x(t, s), x), 9 + 3 + 5, 9 + 3 + 5)

\* has_fixed_bits allocates and releases 2 bit-vectors, is_fixed 1
bzla_is_inv_mul_const(x, t, s, pos_x) ==
  LET o == bzla_is_inv_mul(x, t, s, pos_x)
  IN  IF ~(o.res /\ ~bzla_bv_is_zero(s)) THEN o
      ELSE IF ~bzla_bvdomain_has_fixed_bits(x) THEN Ret(o.res, o.allocs + 2, o.frees + 2)
      ELSE IF bzla_bvdomain_is_fixed(x)
      THEN LET tmp == bzla_bv_mul(x.lo, s)
           IN  Ret(bzla_bv_compare(tmp, t) = 0, o.allocs + 3 + 1, o.frees + 3 + 1)
      ELSE IF bzla_bv_get_bit(s, 0) = 1
      THEN LET mod_inv_s == bzla_bv_mod_inverse(s)
               tmp       == bzla_bv_mul(mod_inv_s, t)
           IN  Ret(check_const_bits(x, tmp), o.allocs + 3 + 2 + 2, o.frees + 3 + 2 + 2)
      ELSE LET e == is_inv_mul_const_even(x, t, s)
           IN  Ret(e.res, o.allocs + 3 + e.allocs, o.frees + 3 + e.frees)

\* the loop for (i = i0; i <= bw_s && !res; i++) of bzla_is_inv_sll_const,
\* pos_x = 1; allocs counts bv_i, and, or and, for a possible i, shift1
RECURSIVE is_inv_sll_const_loop(_, _, _, _, _, _)
is_inv_sll_const_loop(x, t, s, i, res, allocs) ==
  LET bw_s == bzla_bv_get_width(s)
  IN  IF ~(i <= bw_s /\ ~res) THEN [res |-> res, allocs |-> allocs]
      ELSE LET bv_i    == bzla_bv_uint64_to_bv(i, bw_s)
               and     == bzla_bv_and(bv_i, x.hi)
               or      == bzla_bv_or(bv_i, x.lo)
               invalid == bzla_bv_compare(or, bv_i) # 0 \/ bzla_bv_compare(and, bv_i) # 0
               shift1  == bzla_bv_sll(s, bv_i)
           IN  IF ~invalid
               THEN is_inv_sll_const_loop(x, t, s, i + 1, bzla_bv_compare(shift1, t) = 0, allocs + 4)
               ELSE is_inv_sll_const_loop(x, t, s, i + 1, res, allocs + 3)

bzla_is_inv_sll_const(x, t, s, pos_x) ==
  IF pos_x = 0
  THEN LET o      == bzla_is_inv_sll(x, t, s, pos_x)
           shift1 == bzla_bv_sll(x.hi, s)
           shift2 == bzla_bv_sll(x.lo, s)
           and    == bzla_bv_and(shift1, t)
           or     == bzla_bv_or(shift2, t)
       IN  IF ~o.res THEN Ret(FALSE, o.allocs, o.frees)
           ELSE Ret(bzla_bv_compare(and, t) = 0 /\ bzla_bv_compare(or, t) = 0,
                    o.allocs + 4, o.frees + 4)
  ELSE LET bw_s  == bzla_bv_get_width(s)
           bv_bw == bzla_bv_uint64_to_bv(bw_s, bw_s)
           res0  == bzla_bv_compare(x.hi, bv_bw) >= 0 /\ bzla_bv_is_zero(t)
           l     == is_inv_sll_const_loop(x, t, s, 0, res0, 0)
       IN  Ret(l.res, 1 + l.allocs, 1 + l.allocs)

RECURSIVE is_inv_srl_const_loop(_, _, _, _, _, _)
is_inv_srl_const_loop(x, t, s, i, res, allocs) ==
  LET bw_s == bzla_bv_get_width(s)
  IN  IF ~(i <= bw_s /\ ~res) THEN [res |-> res, allocs |-> allocs]
      ELSE LET bv_i    == bzla_bv_uint64_to_bv(i, bw_s)
               and     == bzla_bv_and(bv_i, x.hi)
               or      == bzla_bv_or(bv_i, x.lo)
               invalid == bzla_bv_compare(or, bv_i) # 0 \/ bzla_bv_compare(and, bv_i) # 0
               shift1  == bzla_bv_srl(s, bv_i)
           IN  IF ~invalid
               THEN is_inv_srl_const_loop(x, t, s, i + 1, bzla_bv_compare(shift1, t) = 0, allocs + 4)
               ELSE is_inv_srl_const_loop(x, t, s, i + 1, res, allocs + 3)

bzla_is_inv_srl_const(x, t, s, pos_x) ==
  IF pos_x = 0
  THEN LET o      == bzla_is_inv_srl(x, t, s, pos_x)
           shift1 == bzla_bv_srl(x.hi, s)
           shift2 == bzla_bv_srl(x.lo, s)
           and    == bzla_bv_and(shift1, t)
           or     == bzla_bv_or(shift2, t)
       IN  IF ~o.res THEN Ret(FALSE, o.allocs, o.frees)
           ELSE Ret(bzla_bv_compare(and, t) = 0 /\ bzla_bv_compare(or, t) = 0,
                    o.allocs + 4, o.frees + 4)
  ELSE LET bw_s  == bzla_bv_get_width(s)
           bv_bw == bzla_bv_uint64_to_bv(bw_s, bw_s)
           res0  == bzla_bv_compare(x.hi, bv_bw) >= 0 /\ bzla_bv_is_zero(t)
           l     == is_inv_srl_const_loop(x, t, s, 0, res0, 0)
       IN  Ret(l.res, 1 + l.allocs, 1 + l.allocs)

bzla_is_inv_udiv_const(x, t, s, pos_x) == Ret(TRUE, 0, 0)

bzla_is_inv_ult_const(x, t, s, pos_x) ==
  IF pos_x = 0
  THEN IF bzla_bv_is_true(t)
       THEN Ret(~bzla_bv_is_zero(s) /\ bzla_bv_compare(x.lo, s) = -1, 0, 0)
       ELSE Ret(bzla_bv_compare(x.hi, s) >= 0, 0, 0)
  ELSE IF bzla_bv_is_true(t)
       THEN Ret(~bzla_bv_is_ones(s) /\ bzla_bv_compare(x.hi, s) = 1, 0, 0)
       ELSE Ret(bzla_bv_compare(x.lo, s) <= 0, 0, 0)

bzla_is_inv_slice_const(x, t, upper, lower) ==
  LET mask        == bzla_bv_xnor(x.lo, x.hi)
      mask_sliced == bzla_bv_slice(mask, upper, lower)
      x_mask      == bzla_bv_slice(x.lo, upper, lower)
      t_mask      == bzla_bv_and(mask_sliced, t)
  IN  Ret(bzla_bv_compare(x_mask, t_mask) = 0, 4, 4)

---------------------------------------------------------------------------
(* bzla_is_inv_urem_const on the arena.  xp points to the domain x, tp and *)
(* sp to t and s.  The function is cut at the head of its while loop.      *)

\* BZLA_PUSH_STACK(candidates, a): the first push allocates the buffer
push_stack(m, st, a) ==
  [mem   |-> IF st.start = 0 THEN Alloc(m, STRUCT) ELSE m,
   stack |-> [start |-> IF st.start = 0 THEN NewAddr(m) ELSE st.start,
              elems |-> Append(st.elems, a)]]

\* BZLA_RELEASE_STACK(candidates): releases the buffer, not what was pushed
release_stack(m, st) == FreeIf(m, st.start)

\* lo and hi of the range searched for x in s % x = t with s > t; allocates
\* lo and hi and, for t # 0, sub, rem, div (rem, sub and maybe div released)
urem_const_range(m, tp, sp) ==
  LET lo == NewAddr(m)
      WithDiv(m4, sub, rem, div) ==
        IF bzla_bv_is_zero(m4[rem])
        THEN [mem |-> Free(Free(Free(Alloc(m4, bzla_bv_dec(m4[div])), div), rem), sub),
              lo |-> lo, hi |-> NewAddr(m4)]
        ELSE [mem |-> Free(Free(m4, rem), sub), lo |-> lo, hi |-> div]
      WithRem(m3, sub, rem) ==
        WithDiv(Alloc(m3, bzla_bv_udiv(m3[sub], m3[tp])), sub, rem, NewAddr(m3))
      WithSub(m2, sub) ==
        WithRem(Alloc(m2, bzla_bv_urem(m2[sub], m2[tp])), sub, NewAddr(m2))
      WithLo(m1) ==
        IF bzla_bv_is_zero(m1[tp])
        THEN [mem |-> Alloc(m1, bzla_bv_copy(m1[sp])), lo |-> lo, hi |-> NewAddr(m1)]
        ELSE WithSub(Alloc(m1, bzla_bv_sub(m1[sp], m1[tp])), NewAddr(m1))
  IN  WithLo(Alloc(m, bzla_bv_one(bzla_bv_get_width(m[tp]))))

\* faulty variant of urem_const_no_overflow: sub = t counts as an overflow
urem_const_no_overflow_strict(m, sub, tp) == bzla_bv_compare(m[sub], m[tp]) > 0

\* pos_x = 0, s > t and t does not match the fixed bits of x: res stays true
\* unless sub = ones - s is below t (x = s * n + t overflows for n = 1)
urem_const_no_overflow(m, sub, tp) == ~(bzla_bv_compare(m[sub], m[tp]) < 0)

\* from the entry to the first test of the while loop (next = "loop"), or to
\* the return (next = "return"), or to a failing assert (next = "abort")
urem_const_enter(m, xp, tp, sp, pos_x) ==
  LET x    == Deref(m, xp)
      t    == m[tp]
      s    == m[sp]
      ones == NewAddr(m)
      m1   == Alloc(m, bzla_bv_ones(bzla_bv_get_width(t)))
      cmp  == bzla_bv_compare(s, t)
      Out(nxt, mm, res) == [next |-> nxt, mem |-> mm, gen |-> GenNone, res |-> res]
      \* the generator over x restricted to the range lo .. hi
      Search(gi) ==
        [next |-> IF gi.ok THEN "loop" ELSE "abort", mem |-> gi.mem, gen |-> gi.gen, res |-> TRUE]
      Range(rg) == Search(bzla_bvdomain_gen_init_range(rg.mem, xp, rg.lo, rg.hi))
      \* pos_x = 0 and t does not match x: sub = ones - s is allocated
      Overflow(m2) == Out("return", m2, urem_const_no_overflow(m2, NewAddr(m1), tp))
  IN  IF ~bzla_is_inv_urem(x, t, s, pos_x).res THEN Out("return", m, FALSE)
      ELSE IF pos_x # 0
      THEN IF bzla_bv_compare(t, m1[ones]) = 0
           THEN IF bzla_bv_compare(s, m1[ones]) # 0 THEN Out("abort", m1, TRUE)
                ELSE Out("return", m1, check_const_bits_val(x, 0))
           ELSE IF cmp < 0 THEN Out("abort", m1, TRUE)
           ELSE IF cmp = 0 THEN Out("return", m1, bzla_bv_compare(x.hi, t) >= 0)
           ELSE Range(urem_const_range(m1, tp, sp))
      ELSE IF bzla_bv_is_zero(s) \/ bzla_bv_compare(t, m1[ones]) = 0
           THEN Out("return", m1, check_const_bits(x, t))
           ELSE IF ~(cmp > 0) THEN Out("abort", m1, TRUE)
           ELSE IF check_const_bits(x, t) THEN Out("return", m1, TRUE)
           ELSE Overflow(Alloc(m1, bzla_bv_sub(m1[ones], s)))

\* one iteration of the while loop: bv is drawn, rem = s % bv is pushed if it
\* equals t and matches the constant bits of x, and released otherwise
urem_const_iter(m, g, st, xp, tp, sp) ==
  LET Pushed(r, m1, p) ==
        [mem |-> p.mem, gen |-> r.gen, stack |-> p.stack, bv |-> m1[r.res], ok |-> r.ok]
      Test(r, m1, rem) ==
        IF /\ bzla_bv_compare(m1[rem], m1[tp]) = 0
           /\ check_const_bits(Deref(m1, xp), m1[rem])
        THEN Pushed(r, m1, push_stack(m1, st, rem))
        ELSE [mem |-> Free(m1, rem), gen |-> r.gen, stack |-> st, bv |-> m1[r.res], ok |-> r.ok]
      Draw(r) == Test(r, Alloc(r.mem, bzla_bv_urem(r.mem[sp], r.mem[r.res])), NewAddr(r.mem))
  IN  Draw(bzla_bvdomain_gen_next(m, g))

\* after the loop: res = BZLA_EMPTY_STACK(candidates), then the stack is
\* released; the generator is not deleted
urem_const_exit(m, st) ==
  [mem |-> release_stack(m, st), res |-> st.elems = <<>>]

---------------------------------------------------------------------------
(* Specification Spec: a caller owns a domain x and bit-vectors t and s    *)
(* and asks the oblivious oracle of one operator about them, and then the  *)
(* oracle with constant bits of the same operator.                         *)

\* addresses of the caller's objects: lo and hi of x, t, s
InvArgs == [lo |-> 1, hi |-> 2, t |-> 3, s |-> 4]

InvWidths == 1 .. MaxW

AllDomains(w) == [lo : BvSet(w), hi : BvSet(w)]

\* operators whose x, s and t have one width
SameWidthOps == {"add", "and", "mul", "sll", "srl", "udiv", "urem"}

\* operators whose t is a Boolean
BoolOps == {"eq", "ult"}

\* the arguments of a call of the oracles of operator op on a domain of
\* width w: t and s of the widths the operator asks for
InvInputs(op, w) ==
  CASE op \in SameWidthOps ->
         [op : {op}, x : AllDomains(w), t : BvSet(w), s : BvSet(w),
          pos_x : {0, 1}, upper : {0}, lower : {0}]
    [] op \in BoolOps ->
         [op : {op}, x : AllDomains(w), t : BvSet(1), s : BvSet(w),
          pos_x : {0, 1}, upper : {0}, lower : {0}]
    [] op = "concat" ->
         UNION {[op : {op}, x : AllDomains(w), t : BvSet(w + ws), s : BvSet(ws),
                 pos_x : {0, 1}, upper : {0}, lower : {0}] : ws \in 1 .. MaxW - w}
    [] op = "slice" ->
         UNION {[op : {op}, x : AllDomains(w), t : BvSet(ul[1] - ul[2] + 1), s : {NullBv},
                 pos_x : {0}, upper : {ul[1]}, lower : {ul[2]}] :
                  ul \in {v \in (0 .. w - 1) \X (0 .. w - 1) : v[2] <= v[1]}}

InvInit ==
  /\ DomIdle /\ FactIdle /\ GenIdle /\ StrIdle
  /\ \E op \in SameWidthOps \cup BoolOps \cup {"concat", "slice"}, w \in InvWidths :
       in \in InvInputs(op, w)
  /\ mem = <<in.x.lo, in.x.hi, in.t, in.s>>
  /\ pc = "call"
  /\ arena = 0
  /\ res_inv = <<>>
  /\ res_const = <<>>
  /\ ures = FALSE
  /\ candidates = StackNone

InvFrame == UNCHANGED <<domVars, factVars, strVars>>

\* the arguments the caller passes
ArgX == Deref(mem, InvArgs)

ArgT == mem[InvArgs.t]

ArgS == mem[InvArgs.s]

\* an oracle without constant bits returned r
ReturnInv(r) ==
  /\ res_inv' = <<r.res>>
  /\ arena' = arena + r.allocs - r.frees
  /\ UNCHANGED <<mem, genVars, pc, in, res_const, ures, candidates>>

\* an oracle with constant bits returned r
ReturnConst(r) ==
  /\ res_const' = <<r.res>>
  /\ arena' = arena + r.allocs - r.frees
  /\ UNCHANGED <<mem, genVars, pc, in, res_inv, ures, candidates>>

IsInvAdd ==
  /\ pc = "call" /\ in.op = "add" /\ res_inv = <<>>
  /\ ReturnInv(bzla_is_inv_add(ArgX, ArgT, ArgS, in.pos_x))
  /\ InvFrame

IsInvAnd ==
  /\ pc = "call" /\ in.op = "and" /\ res_inv = <<>>
  /\ ReturnInv(bzla_is_inv_and(ArgX, ArgT, ArgS, in.pos_x))
  /\ InvFrame

IsInvConcat ==
  /\ pc = "call" /\ in.op = "concat" /\ res_inv = <<>>
  /\ ReturnInv(bzla_is_inv_concat(ArgX, ArgT, ArgS, in.pos_x))
  /\ InvFrame

IsInvEq ==
  /\ pc = "call" /\ in.op = "eq" /\ res_inv = <<>>
  /\ ReturnInv(bzla_is_inv_eq(ArgX, ArgT, ArgS, in.pos_x))
  /\ InvFrame

IsInvMul ==
  /\ pc = "call" /\ in.op = "mul" /\ res_inv = <<>>
  /\ ReturnInv(bzla_is_inv_mul(ArgX, ArgT, ArgS, in.pos_x))
  /\ InvFrame

IsInvSll ==
  /\ pc = "call" /\ in.op = "sll" /\ res_inv = <<>>
  /\ ReturnInv(bzla_is_inv_sll(ArgX, ArgT, ArgS, in.pos_x))
  /\ InvFrame

IsInvSrl ==
  /\ pc = "call" /\ in.op = "srl" /\ res_inv = <<>>
  /\ ReturnInv(bzla_is_inv_srl(ArgX, ArgT, ArgS, in.pos_x))
  /\ InvFrame

IsInvUlt ==
  /\ pc = "call" /\ in.op = "ult" /\ res_inv = <<>>
  /\ ReturnInv(bzla_is_inv_ult(ArgX, ArgT, ArgS, in.pos_x))
  /\ InvFrame

IsInvUdiv ==
  /\ pc = "call" /\ in.op = "udiv" /\ res_inv = <<>>
  /\ ReturnInv(bzla_is_inv_udiv(ArgX, ArgT, ArgS, in.pos_x))
  /\ InvFrame

IsInvUrem ==
  /\ pc = "call" /\ in.op = "urem" /\ res_inv = <<>>
  /\ ReturnInv(bzla_is_inv_urem(ArgX, ArgT, ArgS, in.pos_x))
  /\ InvFrame

IsInvSlice ==
  /\ pc = "call" /\ in.op = "slice" /\ res_inv = <<>>
  /\ ReturnInv(bzla_is_inv_slice(ArgX, ArgT, in.upper, in.lower))
  /\ InvFrame

IsInvAddConst ==
  /\ pc = "call" /\ in.op = "add" /\ res_inv # <<>> /\ res_const = <<>>
  /\ ReturnConst(bzla_is_inv_add_const(ArgX, ArgT, ArgS, in.pos_x))
  /\ InvFrame

IsInvAndConst ==
  /\ pc = "call" /\ in.op = "and" /\ res_inv # <<>> /\ res_const = <<>>
  /\ ReturnConst(bzla_is_inv_and_const(ArgX, ArgT, ArgS, in.pos_x))
  /\ InvFrame

IsInvConcatConst ==
  /\ pc = "call" /\ in.op = "concat" /\ res_inv # <<>> /\ res_const = <<>>
  /\ ReturnConst(bzla_is_inv_concat_const(ArgX, ArgT, ArgS, in.pos_x))
  /\ InvFrame

IsInvEqConst ==
  /\ pc = "call" /\ in.op = "eq" /\ res_inv # <<>> /\ res_const = <<>>
  /\ ReturnConst(bzla_is_inv_eq_const(ArgX, ArgT, ArgS, in.pos_x))
  /\ InvFrame

IsInvMulConst ==
  /\ pc = "call" /\ in.op = "mul" /\ res_inv # <<>> /\ res_const = <<>>
  /\ ReturnConst(bzla_is_inv_mul_const(ArgX, ArgT, ArgS, in.pos_x))
  /\ InvFrame

IsInvSllConst ==
  /\ pc = "call" /\ in.op = "sll" /\ res_inv # <<>> /\ res_const = <<>>
  /\ ReturnConst(bzla_is_inv_sll_const(ArgX, ArgT, ArgS, in.pos_x))
  /\ InvFrame

IsInvSrlConst ==
  /\ pc = "call" /\ in.op = "srl" /\ res_inv # <<>> /\ res_const = <<>>
  /\ ReturnConst(bzla_is_inv_srl_const(ArgX, ArgT, ArgS, in.pos_x))
  /\ InvFrame

IsInvUltConst ==
  /\ pc = "call" /\ in.op = "ult" /\ res_inv # <<>> /\ res_const = <<>>
  /\ ReturnConst(bzla_is_inv_ult_const(ArgX, ArgT, ArgS, in.pos_x))
  /\ InvFrame

IsInvUdivConst ==
  /\ pc = "call" /\ in.op = "udiv" /\ res_inv # <<>> /\ res_const = <<>>
  /\ ReturnConst(bzla_is_inv_udiv_const(ArgX, ArgT, ArgS, in.pos_x))
  /\ InvFrame

IsInvSliceConst ==
  /\ pc = "call" /\ in.op = "slice" /\ res_inv # <<>> /\ res_const = <<>>
  /\ ReturnConst(bzla_is_inv_slice_const(ArgX, ArgT, in.upper, in.lower))
  /\ InvFrame

\* bzla_is_inv_urem_const up to its return or to the head of its loop
IsInvUremConstEnter ==
  /\ pc = "call" /\ in.op = "urem" /\ res_inv # <<>> /\ res_const = <<>>
  /\ LET e == urem_const_enter(mem, InvArgs, InvArgs.t, InvArgs.s, in.pos_x)
     IN  /\ mem' = e.mem
         /\ gen' = e.gen
         /\ ures' = e.res
         /\ arena' = arena + Live(e.mem) - Live(mem)
         /\ pc' = CASE e.next = "loop"   -> "urem_loop"
                    [] e.next = "return" -> "call"
                    [] OTHER             -> "abort"
         /\ res_const' = IF e.next = "return" THEN <<e.res>> ELSE res_const
  /\ UNCHANGED <<gpc, gin, out, in, res_inv, candidates>>
  /\ InvFrame

\* one iteration of the while loop of bzla_is_inv_urem_const
IsInvUremConstLoop ==
  /\ pc = "urem_loop"
  /\ bzla_bvdomain_gen_has_next(mem, gen)
  /\ LET r == urem_const_iter(mem, gen, candidates, InvArgs, InvArgs.t, InvArgs.s)
     IN  /\ mem' = r.mem
         /\ gen' = r.gen
         /\ candidates' = r.stack
         /\ out' = Append(out, r.bv)
         /\ arena' = arena + Live(r.mem) - Live(mem)
         /\ pc' = IF r.ok THEN "urem_loop" ELSE "abort"
  /\ UNCHANGED <<gpc, gin, in, res_inv, res_const, ures>>
  /\ InvFrame

\* the loop of bzla_is_inv_urem_const ends and the function returns
IsInvUremConstExit ==
  /\ pc = "urem_loop"
  /\ ~bzla_bvdomain_gen_has_next(mem, gen)
  /\ LET r == urem_const_exit(mem, candidates)
     IN  /\ mem' = r.mem
         /\ ures' = r.res
         /\ res_const' = <<r.res>>
         /\ arena' = arena + Live(r.mem) - Live(mem)
  /\ pc' = "call"
  /\ UNCHANGED <<genVars, in, res_inv, candidates>>
  /\ InvFrame

Next ==
  \/ IsInvAdd
  \/ IsInvAnd
  \/ IsInvConcat
  \/ IsInvEq
  \/ IsInvMul
  \/ IsInvSll
  \/ IsInvSrl
  \/ IsInvUlt
  \/ IsInvUdiv
  \/ IsInvUrem
  \/ IsInvSlice
  \/ IsInvAddConst
  \/ IsInvAndConst
  \/ IsInvConcatConst
  \/ IsInvEqConst
  \/ IsInvMulConst
  \/ IsInvSllConst
  \/ IsInvSrlConst
  \/ IsInvUltConst
  \/ IsInvUdivConst
  \/ IsInvSliceConst
  \/ IsInvUremConstEnter
  \/ IsInvUremConstLoop
  \/ IsInvUremConstExit

Spec == InvInit /\ [][Next]_vars

---------------------------------------------------------------------------
(* Properties of the domain operations (checked under SpecDom).            *)

\* the bit at position pos (0 = least significant) that the ternary string
\* str prescribes when each x is read as the character bit
StrBit(str, pos, bit) ==
  LET c == str[Len(str) - pos]
  IN  IF (IF c = "x" THEN bit ELSE c) = "1" THEN 1 ELSE 0

\* C8: a domain built by bzla_bvdomain_new_from_char(str) has lo = str with
\* every x replaced by 0 and hi = str with every x replaced by 1, and
\* bzla_bvdomain_to_char of that domain returns exactly str.
C8_StringRoundTrip ==
  (dorigin = "new_from_char" /\ dstr # <<>>) =>
    /\ d.lo.w = Len(dstr) /\ d.hi.w = Len(dstr)
    /\ \A pos \in 0 .. Len(dstr) - 1 :
         /\ bzla_bv_get_bit(d.lo, pos) = StrBit(dstr, pos, "0")
         /\ bzla_bv_get_bit(d.hi, pos) = StrBit(dstr, pos, "1")
    /\ (dchar # <<>> => dchar = dstr)

\* "1x0x" was parsed to lo = 1000, hi = 1101 and printed back
C8_Witness ==
  /\ dorigin = "new_from_char" /\ dstr = <<"1", "x", "0", "x">>
  /\ d.lo = Bv(4, 8) /\ d.hi = Bv(4, 13)
  /\ dchar = <<"1", "x", "0", "x">>

\* every bit fixed in dd has in bv the value it has in dd.lo
FixedBitsAgree(dd, bv) ==
  \A i \in 0 .. bzla_bvdomain_get_width(dd) - 1 :
    bzla_bvdomain_is_fixed_bit(dd, i) => bzla_bv_get_bit(dd.lo, i) = bzla_bv_get_bit(bv, i)

\* C9 without a validity assumption: for every pair (lo, hi), valid or not, check_fixed_bits(D, b)
\* is true iff every fixed bit of D has in b the value it has in lo, and it
\* agrees with bzla_bvdomain_is_consistent(D, b).
C9_AnyDomain ==
  (cfb # <<>>) =>
    /\ cfb[1] = FixedBitsAgree(d, dbv)
    /\ (cons # <<>> => cons[1] = cfb[1])

\* C9: for every VALID domain D (no position with lo = 1, hi = 0),
\* check_fixed_bits(D, b) is true iff every fixed bit of D has in b the value
\* it has in lo, and it agrees with bzla_bvdomain_is_consistent(D, b).
C9_ValidDomain ==
  (cfb # <<>> /\ bzla_bvdomain_is_valid(d)) =>
    /\ cfb[1] = FixedBitsAgree(d, dbv)
    /\ (cons # <<>> => cons[1] = cfb[1])

\* both checks ran on a valid domain with fixed and unknown bits and rejected b
C9_Witness ==
  /\ cfb = <<FALSE>> /\ cons = <<FALSE>>
  /\ bzla_bvdomain_is_valid(d)
  /\ bzla_bvdomain_has_fixed_bits(d) /\ ~bzla_bvdomain_is_fixed(d)

---------------------------------------------------------------------------
(* Properties of the wheel factorizer (checked under SpecFact).            *)

RECURSIVE Product(_)
Product(sq) == IF sq = <<>> THEN 1 ELSE sq[1].v * Product(Tail(sq))

\* index in rets of the first null return, 0 if there is none yet
FirstNull ==
  IF \E i \in 1 .. Len(rets) : rets[i] = NullBv
  THEN CHOOSE i \in 1 .. Len(rets) : rets[i] = NullBv /\ \A j \in 1 .. i - 1 : rets[j] # NullBv
  ELSE 0

\* C7: for a positive n and no step limit, every non-null value returned by
\* successive wfact_next calls divides n, and the product of the values
\* returned before the first null equals n.
C7_WheelProduct ==
  (fin.mode = "drain" /\ fin.limit = 0 /\ fin.num.v > 0) =>
    /\ \A i \in 1 .. Len(rets) :
         rets[i] # NullBv => (rets[i].v > 0 /\ fin.num.v % rets[i].v = 0)
    /\ (FirstNull # 0 => Product(SubSeq(rets, 1, FirstNull - 1)) = fin.num.v)

\* n = 60 was factored into 2, 2, 3, 5 and the next call returned null
C7_Witness ==
  /\ fin.mode = "drain" /\ fin.limit = 0 /\ fin.num = Bv(6, 60)
  /\ rets = <<Bv(6, 2), Bv(6, 2), Bv(6, 3), Bv(6, 5), NullBv>>

\* the two predicates of get_factor on a value f of the factorizer
Wanted(f) ==
  /\ f # NullBv
  /\ (fin.has_excl => f.v > fin.excl_min_val.v)
  /\ (fin.has_x => bzla_bvdomain_check_fixed_bits(fin.x, f))

\* C10: bzla_bvdomain_get_factor returns a copy of the first value of the
\* factorizer's output that is greater than excl_min_val (when given) and
\* passes check_fixed_bits against x (when given); it returns null iff the
\* factorizer returned null before any value satisfied both.
C10_GetFactorFirst ==
  (fpc = "gf_done") =>
    LET n == Len(rets)
    IN  /\ n >= 1
        /\ \A j \in 1 .. n - 1 : rets[j] # NullBv /\ ~Wanted(rets[j])
        /\ (gf_res # NullBv => Wanted(rets[n]) /\ gf_res = rets[n])
        /\ (gf_res = NullBv <=> rets[n] = NullBv)

\* get_factor skipped at least one factor and returned a later one, with both
\* an exclusion bound and a domain given
C10_Witness ==
  /\ fpc = "gf_done" /\ gf_res # NullBv /\ Len(rets) >= 2
  /\ fin.has_excl /\ fin.has_x

---------------------------------------------------------------------------
(* Properties of the generator (checked under SpecGen).                    *)

\* gamma(D): the bit-vectors b with lo & b = lo and b | hi = hi
Gamma(dd) ==
  {b \in BvSet(bzla_bv_get_width(dd.lo)) :
     bzla_bv_and(dd.lo, b) = dd.lo /\ bzla_bv_or(b, dd.hi) = dd.hi}

\* gamma(D) intersected with the range the client asked for
GenTarget ==
  {b \in Gamma(gin.d) : (gin.has_min => b.v >= gin.min.v) /\ (gin.has_max => b.v <= gin.max.v)}

Emitted == {out[i] : i \in 1 .. Len(out)}

StrictlyAscending(seq) == \A i \in 1 .. Len(seq) - 1 : seq[i].v < seq[i + 1].v

Drained == gpc = "ready" /\ ~bzla_bvdomain_gen_has_next(mem, gen)

\* what the client has drawn so far is an ascending part of the target, and
\* all of the target once has_next is false
GenExhaustive ==
  /\ StrictlyAscending(out)
  /\ Emitted \subseteq GenTarget
  /\ Drained => Emitted = GenTarget

\* C5 without an assumption on D: for every domain D and every range, draining the generator
\* yields each element of gamma(D) within the range exactly once, ascending.
C5_AnyDomain == gpc = "ready" => GenExhaustive

\* C5: for every valid domain D with at least one unknown bit and every range
\* [min, max] (either bound may be absent), draining the generator yields each
\* element of gamma(D) within the range exactly once, in strictly ascending
\* unsigned order.
C5_GenExhaustive ==
  (gpc = "ready" /\ bzla_bvdomain_is_valid(gin.d) /\ ~bzla_bvdomain_is_fixed(gin.d))
    => GenExhaustive

\* a drained generator over a domain with fixed and unknown bits and a range
\* strictly inside [lo, hi], after at least two values
C5_Witness ==
  /\ Drained
  /\ bzla_bvdomain_is_valid(gin.d)
  /\ bzla_bvdomain_has_fixed_bits(gin.d) /\ ~bzla_bvdomain_is_fixed(gin.d)
  /\ gin.has_min /\ gin.min.v > gin.d.lo.v
  /\ gin.has_max /\ gin.max.v < gin.d.hi.v
  /\ Len(out) >= 2

---------------------------------------------------------------------------
(* Properties of the oracles (checked under Spec).  The meaning of the     *)
(* operators is stated on the unsigned values, apart from the bit-vector   *)
(* primitives the oracles use.                                             *)

BitOf(n, i) == (n \div Pow2(i)) % 2

\* xv, put at position in.pos_x of operator in.op with in.s at the other
\* position, gives in.t
Solves(xv) ==
  LET w  == in.x.lo.w
      sv == in.s.v
      tv == in.t.v
      p0 == in.pos_x = 0
      a  == IF p0 THEN xv ELSE sv
      b  == IF p0 THEN sv ELSE xv
  IN  CASE in.op = "add"    -> (xv + sv) % Pow2(w) = tv
        [] in.op = "and"    -> \A i \in 0 .. w - 1 : BitOf(tv, i) = BitOf(xv, i) * BitOf(sv, i)
        [] in.op = "concat" -> tv = IF p0 THEN xv * Pow2(in.s.w) + sv ELSE sv * Pow2(w) + xv
        [] in.op = "eq"     -> (tv = 1) <=> (xv = sv)
        [] in.op = "mul"    -> (xv * sv) % Pow2(w) = tv
        [] in.op = "sll"    -> tv = IF b >= w THEN 0 ELSE (a * Pow2(b)) % Pow2(w)
        [] in.op = "srl"    -> tv = IF b >= w THEN 0 ELSE a \div Pow2(b)
        [] in.op = "ult"    -> (tv = 1) <=> (a < b)
        [] in.op = "udiv"   -> tv = IF b = 0 THEN Pow2(w) - 1 ELSE a \div b
        [] in.op = "urem"   -> tv = IF b = 0 THEN a ELSE a % b
        [] in.op = "slice"  -> tv = (xv \div Pow2(in.lower)) % Pow2(in.upper - in.lower + 1)

\* some bit-vector x of the operand width solves the equation
ExistsX == \E xv \in 0 .. Pow2(in.x.lo.w) - 1 : Solves(xv)

\* xv is in gamma(in.x)
InDomain(xv) ==
  \A i \in 0 .. in.x.lo.w - 1 :
    BitOf(in.x.lo.v, i) <= BitOf(xv, i) /\ BitOf(xv, i) <= BitOf(in.x.hi.v, i)

\* some x of gamma(in.x) solves the equation
ExistsXInDomain == \E xv \in 0 .. Pow2(in.x.lo.w) - 1 : InDomain(xv) /\ Solves(xv)

\* C1: for every operator, valid domain D, s, t and pos_x,
\* bzla_is_inv_<op>_const returns true iff some x in gamma(D) solves the
\* equation.
C1_ConstSoundComplete ==
  (res_const # <<>> /\ bzla_bvdomain_is_valid(in.x)) => (res_const[1] <=> ExistsXInDomain)

C3_Strengthening ==
  (res_const = <<TRUE>> /\ res_inv # <<>>) => res_inv = <<TRUE>>

\* C3: for every operator other than udiv, every domain D and every s, t,
\* pos_x, whenever bzla_is_inv_<op>_const returned true, so did
\* bzla_is_inv_<op> on the same arguments.
C3_StrengtheningExceptUdiv ==
  (res_const = <<TRUE>> /\ res_inv # <<>> /\ in.op # "udiv") => res_inv = <<TRUE>>

\* both oracles of and accepted on a domain with fixed and free bits
C3_Witness ==
  /\ in.op = "and" /\ res_const = <<TRUE>> /\ res_inv = <<TRUE>>
  /\ bzla_bvdomain_is_valid(in.x)
  /\ bzla_bvdomain_has_fixed_bits(in.x) /\ ~bzla_bvdomain_is_fixed(in.x)

\* C4: in every state of every oracle call, lo and hi of x, t and s hold the
\* values the caller passed.
C4_InputsUnchanged ==
  /\ Len(mem) >= 4
  /\ mem[InvArgs.lo] = in.x.lo /\ mem[InvArgs.hi] = in.x.hi
  /\ mem[InvArgs.t] = in.t /\ mem[InvArgs.s] = in.s

\* bzla_is_inv_urem_const returned after its generator, whose min is the
\* domain's own lo, yielded at least two values
C4_Witness ==
  /\ in.op = "urem" /\ in.pos_x = 1 /\ pc = "call" /\ res_const # <<>>
  /\ bzla_bvdomain_is_valid(in.x) /\ in.x.lo.v > 1
  /\ gen.min # 0 /\ Len(out) >= 2

\* C6: when no oracle call is in progress, every allocation made by the
\* oracles has been released.
C6_NoLeak == (pc = "call") => arena = 0

---------------------------------------------------------------------------
\* C11: whatever domains bzla_bvdomain_to_str has printed, of any width >= 1,
\* the write position never exceeds the buffer size, every character written
\* (the NUL included) lands inside the buffer, and no assert of the function
\* has failed.
C11_PrintBufferSafe ==
  (spc # "idle") => (s_buf_pos <= PRINT_BUFFER_SIZE /\ spc # "abort" /\ spc # "ub")

---------------------------------------------------------------------------
(* The protocol of the generator (checked under SpecGen).                  *)

\* bits_max - bits_min + 1, for a generator whose bits_min is not null
GenCount == mem[gen.bits_max].v - mem[gen.bits_min].v + 1

\* has_next is true exactly when bits is not null and bits <= bits_max
HasNextMeaning ==
  bzla_bvdomain_gen_has_next(mem, gen)
    <=> (gen.bits # 0 /\ mem[gen.bits].v <= mem[gen.bits_max].v)

\* C12 as it stands, for every generator with bits_min: once has_next is false
\* exactly bits_max - bits_min + 1 values have been produced.
C12_CountAlways == (Drained /\ gen.bits_min # 0) => Len(out) = GenCount

\* what holds of a generator that is ready
GenProtocol ==
  /\ HasNextMeaning
  /\ bzla_bvdomain_gen_has_next(mem, gen) => (gen.bits_min # 0 /\ Len(out) < GenCount)
  /\ Drained => /\ gen.bits = 0
                /\ Len(out) = IF gen.bits_min # 0 /\ GenCount > 0 THEN GenCount ELSE 0

\* C12: has_next is true exactly when bits is not null and bits <= bits_max;
\* a freshly initialised generator that is drawn from while has_next is true
\* produces exactly bits_max - bits_min + 1 values if that number is positive
\* and bits_min is not null, and none otherwise; afterwards bits is null and
\* has_next is false and stays false; gen_next is only taken while has_next
\* is true.
C12_GenProtocol ==
  /\ [](gpc = "ready" => GenProtocol)
  /\ [][(out' # out) => (gpc = "ready" /\ bzla_bvdomain_gen_has_next(mem, gen))]_vars
  /\ [][Drained => ~bzla_bvdomain_gen_has_next(mem', gen')]_vars

\* a generator drained after three values, its bits_min above zero
C12_Witness ==
  /\ Drained /\ gen.bits = 0 /\ gen.bits_min # 0
  /\ Len(out) = 3 /\ GenCount = 3 /\ mem[gen.bits_min].v > 0

---------------------------------------------------------------------------
(* Validity of the domains the operations produce (checked under SpecDom). *)

\* the constructors that take no (lo, hi) pair from the caller
ValidOrigins == {"new_init", "new_from_char", "new_fixed", "new_fixed_uint64"}

\* no position of dd has lo = 1 and hi = 0
NoInvalidPosition(dd) ==
  \A i \in 0 .. dd.lo.w - 1 :
    ~((dd.lo.v \div Pow2(i)) % 2 = 1 /\ (dd.hi.v \div Pow2(i)) % 2 = 0)

\* bit i of the unsigned value v
ValueBit(v, i) == (v \div Pow2(i)) % 2

\* e is dd with position pos of lo and of hi set to value and nothing else
\* changed
OnlyPositionFixed(dd, e, pos, value) ==
  /\ e.lo.w = dd.lo.w /\ e.hi.w = dd.hi.w
  /\ ValueBit(e.lo.v, pos) = value /\ ValueBit(e.hi.v, pos) = value
  /\ \A i \in (0 .. dd.lo.w - 1) \ {pos} :
       /\ ValueBit(e.lo.v, i) = ValueBit(dd.lo.v, i)
       /\ ValueBit(e.hi.v, i) = ValueBit(dd.hi.v, i)

\* C13: a domain built by new_init, new_from_char, new_fixed or
\* new_fixed_uint64 and then copied, negated, sliced and fixed bit by bit any
\* number of times is valid (is_valid holds; no position has lo = 1 and
\* hi = 0), and a fix_bit step changes only the position it is given, in lo
\* and in hi (stated of every fix_bit step the current domain can take).
C13_ValidityPreserved ==
  /\ dorigin \in ValidOrigins => (bzla_bvdomain_is_valid(d) /\ NoInvalidPosition(d))
  /\ dorigin # "none" =>
       \A pos \in 0 .. bzla_bvdomain_get_width(d) - 1 : \A value \in {0, 1} :
         OnlyPositionFixed(d, bzla_bvdomain_fix_bit(d, pos, value), pos, value)

\* a domain from new_from_char, transformed since, of width 2 with a fixed
\* bit 1 above an unknown bit
C13_Witness ==
  /\ dorigin = "new_from_char" /\ dstr = <<>>
  /\ d.lo = Bv(2, 2) /\ d.hi = Bv(2, 3)

---------------------------------------------------------------------------
\* the operators whose oracle with constant bits decides the equation
ExactConstOps == {"add", "and", "concat", "eq", "mul", "sll", "srl", "ult", "slice"}

---------------------------------------------------------------------------
(* bzla_is_inv_urem_const, branch by branch (checked under Spec).          *)

\* the oracle with constant bits of urem has returned, x at position p, and
\* the oblivious oracle had accepted
UremConstReturned(p) ==
  /\ in.op = "urem" /\ in.pos_x = p /\ pc = "call"
  /\ res_inv = <<TRUE>> /\ res_const # <<>>

\* t = ones
TIsOnes == in.t.v = Pow2(in.t.w) - 1

\* some value the generator produced in the call satisfies s % x = t
SomeCandidate == \E i \in 1 .. Len(out) : out[i].v # 0 /\ in.s.v % out[i].v = in.t.v

\* C15: urem_const with pos_x = 1, s > t, t # ones and the oblivious oracle
\* true returns true iff at least one value enumerated by the generator
\* satisfies s % x = t.
C15_UremSearch ==
  (UremConstReturned(1) /\ in.s.v > in.t.v /\ ~TIsOnes) => (res_const[1] <=> SomeCandidate)

\* C16: urem_const with pos_x = 1, s = t and t # ones returns true exactly
\* when hi >= t, and exactly when some x in gamma(D) is 0 or greater than t,
\* for every valid D.
C16_UremEqual ==
  (UremConstReturned(1) /\ in.s.v = in.t.v /\ ~TIsOnes /\ bzla_bvdomain_is_valid(in.x))
    => /\ res_const[1] <=> in.x.hi.v >= in.t.v
       /\ res_const[1] <=> \E xv \in 0 .. Pow2(in.x.lo.w) - 1 :
                              InDomain(xv) /\ (xv = 0 \/ xv > in.t.v)

\* pos_x = 0, s # 0, t # ones and t does not match the fixed bits of D
UremNoSimpleSolution ==
  /\ in.s.v # 0 /\ ~TIsOnes
  /\ ~bzla_bvdomain_check_fixed_bits(in.x, in.t)

\* C17: urem_const with pos_x = 0 and the oblivious oracle true returns
\* check_fixed_bits(D, t) if s = 0 or t = ones; otherwise s > t, and it returns
\* true if check_fixed_bits(D, t) holds, false if it does not and
\* ones - s < t, and true if it does not and ones - s >= t.
C17_UremDividend ==
  UremConstReturned(0)
    => IF in.s.v = 0 \/ TIsOnes
       THEN res_const[1] <=> bzla_bvdomain_check_fixed_bits(in.x, in.t)
       ELSE /\ in.s.v > in.t.v
            /\ res_const[1] <=> (\/ bzla_bvdomain_check_fixed_bits(in.x, in.t)
                                 \/ Pow2(in.s.w) - 1 - in.s.v >= in.t.v)

\* accepted without a search: t does not match D and ones - s = t
C17_Witness ==
  /\ UremConstReturned(0) /\ UremNoSimpleSolution
  /\ Pow2(in.s.w) - 1 - in.s.v = in.t.v
  /\ res_const = <<TRUE>>

---------------------------------------------------------------------------
(* The branch of bzla_is_inv_mul_const for an even s (checked under Spec). *)

\* bzla_is_inv_mul_const returned from its branch for an even s # 0 and a
\* domain with fixed and free bits
MulConstEvenReturned ==
  /\ in.op = "mul" /\ res_inv = <<TRUE>> /\ res_const # <<>>
  /\ in.s.v # 0 /\ in.s.v % 2 = 0
  /\ bzla_bvdomain_has_fixed_bits(in.x) /\ ~bzla_bvdomain_is_fixed(in.x)

RECURSIVE Ctz(_)
\* number of trailing zeros of n > 0
Ctz(n) == IF n % 2 = 1 THEN 0 ELSE 1 + Ctz(n \div 2)

\* x' = (s >> z)^-1 * (t >> z) modulo 2^w, z = ctz(s)
XPrime ==
  LET w   == in.s.w
      z   == Ctz(in.s.v)
      inv == CHOOSE y \in 0 .. Pow2(w) - 1 : ((in.s.v \div Pow2(z)) * y) % Pow2(w) = 1
  IN  (inv * (in.t.v \div Pow2(z))) % Pow2(w)

\* position i of domain dd is fixed / fixed to bit b
FixedAt(dd, i) == BitOf(dd.lo.v, i) = BitOf(dd.hi.v, i)

\* a and b agree on every position fixed in both
AgreeWhereBothFixed(a, b) ==
  \A i \in 0 .. a.lo.w - 1 :
    (FixedAt(a, i) /\ FixedAt(b, i)) => BitOf(a.lo.v, i) = BitOf(b.lo.v, i)

\* C18 with the top w-z positions fixed: the auxiliary domain has its top w-z
\* positions fixed to the bits of x' and its low z positions unknown, and the
\* oracle returns true iff the auxiliary domain agrees with D on every position
\* fixed in both.
C18_TopBitsFixed ==
  MulConstEvenReturned =>
    LET aux == mul_const_d_tmp_x(in.t, in.s)
        w   == in.s.w
        z   == Ctz(in.s.v)
    IN  /\ \A i \in z .. w - 1 : FixedAt(aux, i) /\ BitOf(aux.lo.v, i) = BitOf(XPrime, i)
        /\ \A i \in 0 .. z - 1 : ~FixedAt(aux, i)
        /\ res_const[1] <=> AgreeWhereBothFixed(aux, in.x)

\* C18: in the branch of mul_const for an even s # 0 and a domain D with some
\* but not all bits fixed, with z = ctz(s) and x' = (s >> z)^-1 * (t >> z), the
\* auxiliary domain has its low w-z positions fixed to the corresponding bits
\* of x' and its top z positions unknown, and the oracle returns true iff the
\* auxiliary domain agrees with D on every position fixed in both.
C18_LowBitsFixed ==
  MulConstEvenReturned =>
    LET aux == mul_const_d_tmp_x(in.t, in.s)
        w   == in.s.w
        z   == Ctz(in.s.v)
    IN  /\ aux.lo.w = w /\ aux.hi.w = w
        /\ \A i \in 0 .. w - z - 1 : FixedAt(aux, i) /\ BitOf(aux.lo.v, i) = BitOf(XPrime, i)
        /\ \A i \in w - z .. w - 1 : BitOf(aux.lo.v, i) = 0 /\ BitOf(aux.hi.v, i) = 1
        /\ res_const[1] <=> AgreeWhereBothFixed(aux, in.x)

\* the branch rejected at width 3 for s = 2: D fixes a low bit against x'
C18_Witness ==
  /\ MulConstEvenReturned /\ in.s = Bv(3, 2) /\ res_const = <<FALSE>>
  /\ bzla_bvdomain_is_valid(in.x)

---------------------------------------------------------------------------
(* The bounds of the generator (checked under SpecGen).                    *)

RECURSIVE ComposeFrom(_, _, _)
\* the value whose fixed positions i .. w-1 are those of dd and whose free
\* positions hold the bits of pattern p, lowest free position first
ComposeFrom(dd, p, i) ==
  IF i >= dd.lo.w THEN 0
  ELSE IF (dd.lo.v \div Pow2(i)) % 2 = (dd.hi.v \div Pow2(i)) % 2
       THEN ((dd.lo.v \div Pow2(i)) % 2) * Pow2(i) + ComposeFrom(dd, p, i + 1)
       ELSE (p % 2) * Pow2(i) + ComposeFrom(dd, p \div 2, i + 1)

Compose(dd, p) == ComposeFrom(dd, p, 0)

\* number of free positions of dd
FreeCount(dd) ==
  Cardinality({i \in 0 .. dd.lo.w - 1 : (dd.lo.v \div Pow2(i)) % 2 # (dd.hi.v \div Pow2(i)) % 2})

Patterns(dd) == 0 .. Pow2(FreeCount(dd)) - 1

\* min and max as gen_init_range clips them to [lo, hi]
ClippedMin == IF gin.has_min /\ gin.min.v >= gin.d.lo.v THEN gin.min.v ELSE gin.d.lo.v

ClippedMax == IF gin.has_max /\ gin.max.v <= gin.d.hi.v THEN gin.max.v ELSE gin.d.hi.v

\* the generator was initialised over a valid domain with a free bit and a
\* range that meets [lo, hi]
GenInRange ==
  /\ gpc = "ready"
  /\ bzla_bvdomain_is_valid(gin.d) /\ ~bzla_bvdomain_is_fixed(gin.d)
  /\ ClippedMin <= gin.d.hi.v /\ ClippedMax >= gin.d.lo.v

\* C19: for every valid domain D with an unknown bit and every range whose
\* clipped bounds satisfy min <= hi and max >= lo, after gen_init_range
\* bits_min is the smallest free-bit pattern whose composition with the fixed
\* bits of D is >= min and bits_max the largest whose composition is <= max,
\* whenever such patterns exist.
C19_BoundsTight ==
  GenInRange =>
    LET above == {p \in Patterns(gin.d) : Compose(gin.d, p) >= ClippedMin}
        below == {p \in Patterns(gin.d) : Compose(gin.d, p) <= ClippedMax}
    IN  /\ gen.bits_min # 0 /\ gen.bits_max # 0
        /\ mem[gen.bits_min].w = FreeCount(gin.d) /\ mem[gen.bits_max].w = FreeCount(gin.d)
        /\ above # {} => \A p \in above : mem[gen.bits_min].v \in above /\ mem[gen.bits_min].v <= p
        /\ below # {} => \A p \in below : mem[gen.bits_max].v \in below /\ mem[gen.bits_max].v >= p

\* min and max lie strictly inside [lo, hi] and outside gamma(D): the scan of
\* min took the repair step, and bits_min and bits_max compose to other
\* values than min and max
C19_Witness ==
  /\ GenInRange /\ out = <<>> /\ gen.bits # 0
  /\ gin.has_min /\ gin.has_max
  /\ Compose(gin.d, mem[gen.bits_min].v) > gin.min.v
  /\ Compose(gin.d, mem[gen.bits_max].v) < gin.max.v
  /\ gin.min.v > gin.d.lo.v /\ gin.max.v < gin.d.hi.v

\* one of the four reasons for an empty generator holds of the call
GenEmptyCase ==
  \/ FreeCount(gin.d) = 0
  \/ ClippedMin > gin.d.hi.v
  \/ ClippedMax < gin.d.lo.v
  \/ gen.bits_min # 0 /\ gen.bits_max # 0 /\ mem[gen.bits_min].v > mem[gen.bits_max].v

\* C20: immediately after gen_init_range(D, min, max), with min and max
\* clipped to [lo, hi], gen_has_next is false iff D has no unknown bit, or
\* min > hi, or max < lo, or bits_min > bits_max; in each of these cases no
\* value is ever produced by gen_next.
C20_EmptyGenerator ==
  gpc = "ready" =>
    /\ out = <<>> => (~bzla_bvdomain_gen_has_next(mem, gen) <=> GenEmptyCase)
    /\ GenEmptyCase => out = <<>> /\ ~bzla_bvdomain_gen_has_next(mem, gen)

\* a valid domain and a range min <= max that meets [lo, hi] but holds no
\* value of the domain: both patterns exist and bits_min > bits_max
C20_Witness ==
  /\ GenInRange /\ out = <<>>
  /\ gin.has_min /\ gin.has_max /\ gin.min.v <= gin.max.v
  /\ gen.bits_min # 0 /\ gen.bits_max # 0 /\ mem[gen.bits_min].v > mem[gen.bits_max].v
  /\ ~bzla_bvdomain_gen_has_next(mem, gen)

---------------------------------------------------------------------------
(* The candidates of the wheel factorizer (checked under SpecFact).        *)

\* the factorizer is initialised
FactLive == fpc \notin {"idle", "start"}

\* the numbers from 7 on below 37 that 2, 3 and 5 do not divide, less 7
WheelOffsets == <<0, 4, 6, 10, 12, 16, 22, 24>>

\* the k-th candidate (k = 0, 1, ...) of the wheel with basis 2, 3, 5:
\* 2, 3, 5, 7, 11, 13, 17, 19, 23, 29, 31, 37, 41, ...
Wheel(k) ==
  IF k = 0 THEN 2 ELSE IF k = 1 THEN 3 ELSE IF k = 2 THEN 5
  ELSE 7 + 30 * ((k - 3) \div 8) + WheelOffsets[((k - 3) % 8) + 1]

\* the index into inc at the k-th candidate
WheelPos(k) == IF k < 3 THEN k ELSE 3 + ((k - 3) % 8)

\* the order of candidates as the claim lists it
ListedCandidates == <<2, 3, 4, 5, 7, 8, 9, 11, 13, 14, 15>>

\* C21 as stated: the successive trial divisors are 2, 3, 4, 5, 7, 8, 9, 11,
\* 13, 14, 15, ..., the k-th one visited with pos = k.
C21_ListedOrder ==
  (FactLive /\ ~wf.done /\ wf.fact.w >= 4 /\ wf.fact.v <= 15) =>
    \E k \in 0 .. 10 : wf.fact.v = ListedCandidates[k + 1] /\ wf.pos = k

\* C21 (amended): starting from 2 and advancing only when the candidate does
\* not divide the remaining number, the trial divisors visited by wfact_next
\* are, modulo 2^w, 2, 3, 5, 7, 11, 13, 17, 19, 23, 29, 31, 37, ..., produced
\* by adding inc[pos] with the cycle [1, 2, 2, 4, 2, 4, 2, 4, 6, 2, 6], where
\* pos returns to index 3 after index 10 and always stays within 0 .. 10.
C21_WheelOrder ==
  FactLive =>
    /\ wf.pos \in 0 .. 10
    /\ wf.inc = <<wf.one, wf.two, wf.two, wf.four, wf.two, wf.four,
                  wf.two, wf.four, wf.six, wf.two, wf.six>>
    /\ <<wf.one.v, wf.two.v, wf.four.v, wf.six.v>>
         = <<1 % Pow2(wf.fact.w), 2 % Pow2(wf.fact.w), 4 % Pow2(wf.fact.w), 6 % Pow2(wf.fact.w)>>
    /\ ~wf.done =>
         \E k \in 0 .. wf.fact.v :
           /\ wf.fact.v = Wheel(k) % Pow2(wf.fact.w) /\ wf.pos = WheelPos(k)
           /\ (wf.fact.w >= 2 => wf.fact.v = Wheel(k))
           /\ LET r == wfact_next_iter(wf, 0)
              IN  r.wf.fact # wf.fact =>
                    /\ wf.fact.v = 0 \/ wf.num.v % wf.fact.v # 0
                    /\ r.wf.pos = WheelPos(k + 1)
                    /\ r.wf.fact.v = Wheel(k + 1) % Pow2(wf.fact.w)
                    /\ r.wf.done <=> r.wf.fact.v <= wf.fact.v

\* the cycle was walked once: the candidate after 31 is 37, at index 3 again
C21_Witness ==
  FactLive /\ ~wf.done /\ wf.fact.v = 37 /\ wf.pos = 3

IsPrime(v) == v >= 2 /\ \A q \in 2 .. v - 1 : v % q # 0

\* the client drains the factorizer of a number n >= 2 without a step limit
DrainUnlimited == fin.mode = "drain" /\ fin.limit = 0 /\ fin.num.v >= 2

\* C22: for every n >= 2 of any width and no step limit, the non-null values
\* returned by successive wfact_next calls are all prime and appear in
\* non-decreasing order, and the value returned when fact * fact > n is a
\* prime factor of n, never 1.
C22_PrimeFactors ==
  DrainUnlimited =>
    /\ \A i \in 1 .. Len(rets) : rets[i] # NullBv => IsPrime(rets[i].v)
    /\ \A i \in 1 .. Len(rets) - 1 :
         (rets[i] # NullBv /\ rets[i + 1] # NullBv) => rets[i].v <= rets[i + 1].v
    /\ (wf.done /\ rets # <<>> /\ rets[Len(rets)] # NullBv) =>
         /\ rets[Len(rets)].v # 1
         /\ fin.num.v % rets[Len(rets)].v = 0

\* C23: for every positive n of every width w >= 1 and every limit, each
\* wfact_next call returns after finitely many iterations, the sequence of
\* calls reaches done after finitely many calls (every call that does not
\* set done leaves a smaller positive number to factor), and once done every
\* later call returns null.
C23_Terminates ==
  (FactLive /\ fin.num.v > 0) =>
    /\ num_iterations <= Pow2(fin.num.w)
    /\ wf.num.v > 0
    /\ ~wf.done => (wfact_next(wf).wf.done \/ wfact_next(wf).wf.num.v < wf.num.v)
    /\ wf.done => wfact_next(wf) = [wf |-> wf, res |-> NullBv]
    /\ \A i \in 1 .. Len(rets) :
         rets[i] = NullBv => (wf.done /\ \A j \in i .. Len(rets) : rets[j] = NullBv)

---------------------------------------------------------------------------
\* C24: for every valid domain D and every min, max (absent, or any values of
\* D's width), no assert of gen_init_range fails (j > 0 and the free bit at
\* j0 not yet bumped in the repair branches), and while values are drawn with
\* gen_has_next true no assert of gen_next fails: bits stays null or within
\* [bits_min, bits_max] and every emitted value lies between the clipped min
\* and the clipped max.
C24_GenAssertsHold ==
  bzla_bvdomain_is_valid(gin.d) =>
    /\ gpc # "abort"
    /\ (gpc = "ready" /\ gen.bits # 0) =>
         /\ mem[gen.bits_min].v <= mem[gen.bits].v
         /\ mem[gen.bits].v <= mem[gen.bits_max].v
    /\ \A i \in 1 .. Len(out) : ClippedMin <= out[i].v /\ out[i].v <= ClippedMax

\* the scan of min took the repair step (min lies above lo and outside
\* gamma(D)), two values were drawn since and more are to come
C24_Witness ==
  /\ GenInRange /\ gin.has_min /\ gin.min.v > gin.d.lo.v
  /\ Compose(gin.d, mem[gen.bits_min].v) > gin.min.v
  /\ Len(out) = 2 /\ gen.bits # 0

===========================================================================
